---- MODULE Spec2Model ----
(***************************************************************************)
(* Client-side search-and-selection orchestration of the 10-K explorer:    *)
(* the results effect of TenKFileExplorer (Search Orchestrator), its       *)
(* selection state and Document Cache, the company filter of               *)
(* TenKFileExplorer and the debounced company filter of TakeHomeLayout.    *)
(*                                                                         *)
(* Text is modelled as a sequence of one-character strings so that trim()  *)
(* is computed; a nullable value is the empty sequence (null) or a         *)
(* one-element sequence.  One step of the model is one JavaScript task:    *)
(* a user event together with the React commit and effects it triggers,    *)
(* or the continuation of one resolved promise.                            *)
(***************************************************************************)
EXTENDS Integers, Sequences, FiniteSets, TLC

VARIABLES
    query,              \* useState("")                      part_002:76
    searchMode,         \* useState("hybrid")                part_002:77
    selectedCompanies,  \* useState({}) cik -> company       part_002:72
    resultsLoading,     \* part_002:78
    resultsError,       \* part_002:79
    searchResponse,     \* part_002:80
    documentResults,    \* part_002:81
    documentCache,      \* part_002:82
    documentCacheRef,   \* part_002:83
    passes,             \* the fetchResults closures started so far, oldest first
    companySearch,      \* useState("")           part_002:70, part_003:17
    searchResults,      \* useState(undefined)    part_002:75, part_003:22
    searchLoading,      \* TakeHomeLayout         part_003:23
    searchError,        \* TakeHomeLayout         part_003:24
    filterPasses,       \* the runs of the company search effect, oldest first
    activeDocId,        \* useState(null)          part_002:84
    activeDocMeta,      \* part_002:85
    activeSections,     \* part_002:86
    drawerLoading,      \* part_002:87
    drawerError,        \* part_002:88
    drawerCalls,        \* the openDocumentDrawer calls made so far, oldest first
    putAllCall,         \* the last direct call of cacheDocuments: cache before, argument
    apiCall             \* a call of an SECApiClient method     api-client.ts:194-299

orchVars == <<query, searchMode, selectedCompanies, resultsLoading, resultsError,
              searchResponse, documentResults, documentCache, documentCacheRef,
              passes>>

filterVars == <<companySearch, searchResults, searchLoading, searchError, filterPasses>>

drawerVars == <<activeDocId, activeDocMeta, activeSections, drawerLoading,
                drawerError, drawerCalls>>

vars == <<query, searchMode, selectedCompanies, resultsLoading, resultsError,
          searchResponse, documentResults, documentCache, documentCacheRef,
          passes, companySearch, searchResults, searchLoading, searchError,
          filterPasses, activeDocId, activeDocMeta, activeSections, drawerLoading,
          drawerError, drawerCalls, putAllCall, apiCall>>

-----------------------------------------------------------------------------
(* Bounds of the model *)

\* orchestration passes (fetchResults calls) started in one behaviour
MaxPasses == 2

\* metadata fetches one pass may have to issue: the gateway's chunk responses
\* are limited to those that reference at most this many uncached chunks
MaxEnrich == 2

\* runs of the company search effect that issue requests, in one behaviour
MaxFilterPasses == 2

(* Program constants *)
SEARCH_RESULTS_LIMIT == 20
DOCUMENT_RESULTS_LIMIT == 200
COMPANY_SEARCH_LIMIT == 200

-----------------------------------------------------------------------------
(* Values *)

Null == <<>>
Some(v) == <<v>>

NoError == "null"

\* messages of the Error thrown by the fetch adapter
ErrorMessages == {"Internal Server Error"}

\* the query texts the user types: empty, blank, and one padded with a blank
Queries == {<<>>, <<" ">>, <<" ", "r">>}

SearchModes == {"fts", "vector", "hybrid"}

\* the roster rows the user can toggle; one company carries no ticker.
\* Company names are letters only, so that localeCompare is alphabetical.
Apple == [cik |-> 1, name |-> <<"A", "p">>, ticker |-> "AAPL"]
Microsoft == [cik |-> 2, name |-> <<"M", "s">>, ticker |-> "MSFT"]
PrivateCo == [cik |-> 3, name |-> <<"a", "z">>, ticker |-> ""]

Roster == {Apple, Microsoft, PrivateCo}

\* the texts the user types into the company filter
FilterTexts == {<<>>, <<"A">>, <<"A", "A">>, <<"a", " ", "b">>}

\* the company lists the gateway may return for one company search
CompanyLists == {<<>>, <<Microsoft, Apple>>, <<PrivateCo>>}

\* the gateway's documents: year 0 stands for a document without a usable year
GatewayDocs == {
    [doc_id |-> "d1", cik |-> "1", year |-> 2020],
    [doc_id |-> "d2", cik |-> "1", year |-> 2019],
    [doc_id |-> "d3", cik |-> "2", year |-> 0] }

DocIds == {d.doc_id : d \in GatewayDocs}

GatewayDocById(id) == CHOOSE d \in GatewayDocs : d.doc_id = id

\* doc_id of each chunk the gateway may return for a chunk search: a chunk
\* without doc_id, two chunks of one document, and five chunks referencing
\* three documents
ChunkDocIdLists == {
    <<"", "d1">>,
    <<"d2", "d2">>,
    <<"d1", "d1", "d1", "d2", "d3">> }

\* the document lists the gateway may return for a document search
DocumentLists == {
    <<[doc_id |-> "", cik |-> "2", year |-> 0],
      [doc_id |-> "d2", cik |-> "1", year |-> 2019],
      [doc_id |-> "d1", cik |-> "1", year |-> 2020]>>,
    <<[doc_id |-> "d1", cik |-> "1", year |-> 2020]>> }

-----------------------------------------------------------------------------
(* Pure helpers *)

IsSpace(ch) == ch = " "

RECURSIVE TrimStart(_)
TrimStart(s) ==
    IF s # <<>> /\ IsSpace(Head(s)) THEN TrimStart(Tail(s)) ELSE s

RECURSIVE TrimEnd(_)
TrimEnd(s) ==
    IF s # <<>> /\ IsSpace(s[Len(s)]) THEN TrimEnd(SubSeq(s, 1, Len(s) - 1)) ELSE s

\* String.prototype.trim
Trim(s) == TrimEnd(TrimStart(s))

RECURSIVE SortedKeys(_)
SortedKeys(S) ==
    IF S = {} THEN <<>>
    ELSE LET m == CHOOSE x \in S : \A y \in S : x <= y
         IN  <<m>> \o SortedKeys(S \ {m})

\* Object.values of a record keyed by integers: ascending key order
ObjectValues(obj) ==
    LET keys == SortedKeys(DOMAIN obj)
    IN  [i \in 1..Len(keys) |-> obj[keys[i]]]

SelectedCompaniesList(sel) == ObjectValues(sel)

IsTruthy(str) == str # ""

\* selectedCompaniesList.map(c => c.ticker).filter(Boolean)
SelectedTickers(sel) ==
    LET list == SelectedCompaniesList(sel)
        tickers == [i \in 1..Len(list) |-> list[i].ticker]
    IN  SelectSeq(tickers, IsTruthy)

RECURSIVE Join(_)
\* Array.prototype.join(",")
Join(seq) ==
    IF seq = <<>> THEN ""
    ELSE IF Len(seq) = 1 THEN seq[1]
    ELSE seq[1] \o "," \o Join(Tail(seq))

SelectedTickersKey(sel) == Join(SelectedTickers(sel))

ToSet(seq) == {seq[i] : i \in 1..Len(seq)}

EmptyMap == [k \in {} |-> k]

-----------------------------------------------------------------------------
(* Document Cache *)

\* a loop body that files the document under its cik
CachePutByCik(cache, doc) ==
    [k \in DOMAIN cache \cup {doc.cik} |-> IF k = doc.cik THEN doc ELSE cache[k]]

\* a loop body without the `if (doc?.doc_id)` test
CachePutUnguarded(cache, doc) ==
    [k \in DOMAIN cache \cup {doc.doc_id} |->
        IF k = doc.doc_id THEN doc ELSE cache[k]]

\* cacheDocuments: the updater passed to setDocumentCache, one doc at a time
CachePut(cache, doc) ==
    IF IsTruthy(doc.doc_id)
    THEN [k \in DOMAIN cache \cup {doc.doc_id} |->
             IF k = doc.doc_id THEN doc ELSE cache[k]]
    ELSE cache

\* an updater that starts from an empty object instead of { ...prev }
CacheDocumentsReplacingAll(cache, docs) ==
    [k \in {docs[i].doc_id : i \in 1..Len(docs)} \ {""} |->
        CHOOSE d \in ToSet(docs) : d.doc_id = k]

\* a putAll that inserts the first document only
CacheDocumentsFirstOnly(cache, docs) ==
    IF docs = <<>> THEN cache ELSE CachePut(cache, Head(docs))

RECURSIVE CacheDocuments(_, _)
CacheDocuments(cache, docs) ==
    IF docs = <<>> THEN cache
    ELSE CacheDocuments(CachePut(cache, Head(docs)), Tail(docs))

-----------------------------------------------------------------------------
(* Search Orchestrator: the results effect of TenKFileExplorer *)

\* the query as typed
ActiveQueryUntrimmed(q) == q

\* query.trim()
ActiveQuery(q) == Trim(q)

HasTickers(sel) == Len(SelectedTickers(sel)) > 0

\* the idle test on the untrimmed query
IsIdleInputUntrimmed(q, sel) == q = <<>> /\ ~HasTickers(sel)

\* !activeQuery && !hasTickers
IsIdleInput(q, sel) == ActiveQuery(q) = <<>> /\ ~HasTickers(sel)

\* a dependency list that leaves out selectedTickersKey
EffectDepsWithoutTickers(q, m, sel) ==
    \/ q # query
    \/ m # searchMode

\* a dependency list that leaves out searchMode
EffectDepsWithoutMode(q, m, sel) ==
    \/ q # query
    \/ SelectedTickersKey(sel) # SelectedTickersKey(selectedCompanies)

\* the dependency list [cacheDocuments, query, searchMode, selectedTickersKey]
EffectDepsChanged(q, m, sel) ==
    \/ q # query
    \/ m # searchMode
    \/ SelectedTickersKey(sel) # SelectedTickersKey(selectedCompanies)

\* the endpoint the mode dispatch of fetchResults calls
EndpointOfMode(m) ==
    IF m = "fts" THEN "searchFTS"
    ELSE IF m = "vector" THEN "searchVector"
    ELSE "searchHybrid"

ChunkEndpoints == {"searchFTS", "searchVector", "searchHybrid"}

\* a request object that always carries the tickers list
BuildSearchRequestAlwaysTickers(activeQuery, sel) ==
    [query |-> activeQuery, limit |-> SEARCH_RESULTS_LIMIT,
     tickers |-> SelectedTickers(sel)]

\* the request object of the query branch: tickers only when hasTickers
BuildSearchRequest(activeQuery, sel) ==
    IF HasTickers(sel)
    THEN [query |-> activeQuery, limit |-> SEARCH_RESULTS_LIMIT,
          tickers |-> SelectedTickers(sel)]
    ELSE [query |-> activeQuery, limit |-> SEARCH_RESULTS_LIMIT]

\* the parameters of the ticker-only branch
BuildDocumentRequest(sel) ==
    [tickers |-> Join(SelectedTickers(sel)), limit |-> DOCUMENT_RESULTS_LIMIT]

\* the closure of one fetchResults call, at its first await; `replaced` notes,
\* when the call fails, whether results were visible at that moment
NewPass(q, m, sel) ==
    [cancelled |-> FALSE,
     pc        |-> "search",
     endpoint  |-> IF ActiveQuery(q) # <<>> THEN EndpointOfMode(m) ELSE "searchDocuments",
     request   |-> IF ActiveQuery(q) # <<>> THEN BuildSearchRequest(ActiveQuery(q), sel)
                   ELSE BuildDocumentRequest(sel),
     replaced  |-> FALSE,
     missing   |-> <<>>,
     fetched   |-> <<>>]

\* the pass of the latest effect run, 0 when that run took the idle branch
CurrentPass ==
    IF passes # <<>> /\ ~passes[Len(passes)].cancelled THEN Len(passes) ELSE 0

\* a closure that has returned and whose effect run is cleaned up holds no
\* state any more: only whether its resolution was discarded is kept
Settled(how) ==
    [cancelled |-> TRUE,
     pc        |-> IF how = "discarded" THEN "discarded" ELSE "superseded",
     endpoint  |-> "",
     request   |-> [limit |-> 0],
     replaced  |-> FALSE,
     missing   |-> <<>>,
     fetched   |-> <<>>]

\* the cleanup returned by the previous run of the effect: cancelled = true
CleanedUp ==
    IF CurrentPass = 0 THEN passes
    ELSE IF passes[CurrentPass].pc \in {"search", "enrich"}
         THEN [passes EXCEPT ![CurrentPass].cancelled = TRUE]
         ELSE [passes EXCEPT ![CurrentPass] = Settled(passes[CurrentPass].pc)]

\* continuations that never look at the flag
IsCancelledIgnored(pass) == FALSE

\* the `cancelled` flag as the continuations of a pass read it
IsCancelled(pass) == pass.cancelled

\* an effect whose idle branch leaves the loading flag alone
RunResultsEffectKeepingLoading(q, m, sel) ==
    IF IsIdleInput(q, sel)
    THEN /\ UNCHANGED resultsLoading
         /\ resultsError' = NoError
         /\ searchResponse' = Null
         /\ documentResults' = <<>>
         /\ passes' = CleanedUp
    ELSE /\ Len(passes) < MaxPasses
         /\ resultsLoading' = TRUE
         /\ resultsError' = NoError
         /\ passes' = Append(CleanedUp, NewPass(q, m, sel))
         /\ UNCHANGED <<searchResponse, documentResults>>

\* one run of the results effect with the inputs q, m, sel of the new render
RunResultsEffect(q, m, sel) ==
    IF IsIdleInput(q, sel)
    THEN /\ resultsLoading' = FALSE
         /\ resultsError' = NoError
         /\ searchResponse' = Null
         /\ documentResults' = <<>>
         /\ passes' = CleanedUp
    ELSE /\ Len(passes) < MaxPasses
         /\ resultsLoading' = TRUE
         /\ resultsError' = NoError
         /\ passes' = Append(CleanedUp, NewPass(q, m, sel))
         /\ UNCHANGED <<searchResponse, documentResults>>

\* a render with new inputs: the effect runs only if a dependency changed
Rerender(q, m, sel) ==
    /\ query' = q
    /\ searchMode' = m
    /\ selectedCompanies' = sel
    /\ IF EffectDepsChanged(q, m, sel)
       THEN RunResultsEffect(q, m, sel)
       ELSE UNCHANGED <<resultsLoading, resultsError, searchResponse,
                        documentResults, passes>>
    /\ UNCHANGED <<documentCache, documentCacheRef>>
    /\ UNCHANGED <<filterVars, drawerVars, putAllCall, apiCall>>

\* onChange of the global search input: setQuery
SetQuery(q) ==
    /\ q # query
    /\ Rerender(q, searchMode, selectedCompanies)

\* click on a search mode option: setSearchMode
SetSearchMode(m) ==
    /\ m # searchMode
    /\ Rerender(query, m, selectedCompanies)

\* an updater that takes a cik as selected only when it holds this very row
ToggledComparingRows(sel, company) ==
    IF company.cik \in DOMAIN sel /\ sel[company.cik] = company
    THEN [k \in DOMAIN sel \ {company.cik} |-> sel[k]]
    ELSE [k \in DOMAIN sel \cup {company.cik} |->
             IF k = company.cik THEN company ELSE sel[k]]

\* an updater that never deletes
ToggledAlwaysAdds(sel, company) ==
    [k \in DOMAIN sel \cup {company.cik} |->
        IF k = company.cik THEN company ELSE sel[k]]

\* the updater of handleCompanyToggle
Toggled(sel, company) ==
    IF company.cik \in DOMAIN sel
    THEN [k \in DOMAIN sel \ {company.cik} |-> sel[k]]
    ELSE [k \in DOMAIN sel \cup {company.cik} |->
             IF k = company.cik THEN company ELSE sel[k]]

HandleCompanyToggle(company) ==
    Rerender(query, searchMode, Toggled(selectedCompanies, company))

ClearSelectedCompanies ==
    /\ DOMAIN selectedCompanies # {}
    /\ Rerender(query, searchMode, EmptyMap)

\* the chunks of a search response, from the doc_id of each
ChunkItems(ids) == [i \in 1..Len(ids) |-> [chunk_id |-> i, doc_id |-> ids[i]]]

\* the SearchResponse of the gateway; `pass` records which call it answers
GatewayResponse(p, ids) ==
    [query   |-> passes[p].request.query,
     method  |-> passes[p].endpoint,
     results |-> ChunkItems(ids),
     pass    |-> p]

\* response.results.map(item => item.doc_id).filter(Boolean)
ResultDocIds(response) ==
    LET ids == [i \in 1..Len(response.results) |-> response.results[i].doc_id]
    IN  SelectSeq(ids, IsTruthy)

\* an enrichment that does not consult the cache
MissingDocIdsUnfiltered(response, cacheRef) == ResultDocIds(response)

\* docIds.filter(id => !documentCacheRef.current[id])
MissingDocIds(response, cacheRef) ==
    LET NotCached(id) == id \notin DOMAIN cacheRef
    IN  SelectSeq(ResultDocIds(response), NotCached)

RECURSIVE FetchedDocs(_, _)
FetchedDocs(missing, fetched) ==
    IF missing = <<>> THEN <<>>
    ELSE (IF Head(fetched) = "ok" THEN <<GatewayDocById(Head(missing))>> ELSE <<>>)
         \o FetchedDocs(Tail(missing), Tail(fetched))

\* an enrichment without the per-document try/catch: one rejection rejects
\* the Promise.all and no document of the batch is cached
EnrichedDocsAllOrNothing(missing, fetched) ==
    IF \E i \in 1..Len(fetched) : fetched[i] = "fail"
    THEN <<>>
    ELSE FetchedDocs(missing, fetched)

\* the documents handed to cacheDocuments: each element of the Promise.all is
\* the fetched document, or null when its fetch threw; filter(Boolean) drops
\* the nulls
EnrichedDocs(missing, fetched) == FetchedDocs(missing, fetched)

\* a comparator key that ignores the year
YearOfIgnored(doc) == 0

\* [...response].sort((a, b) => (Number(b.year) || 0) - (Number(a.year) || 0)):
\* a stable sort, by insertion.  `year` is a number; the value 0 stands for
\* every year for which Number(year) || 0 is 0
YearOf(doc) == doc.year

RECURSIVE InsertByYear(_, _)
InsertByYear(sorted, doc) ==
    IF sorted = <<>> THEN <<doc>>
    ELSE IF YearOf(Head(sorted)) >= YearOf(doc)
         THEN <<Head(sorted)>> \o InsertByYear(Tail(sorted), doc)
         ELSE <<doc>> \o sorted

RECURSIVE SortByYearDesc(_)
SortByYearDesc(docs) ==
    IF docs = <<>> THEN <<>>
    ELSE InsertByYear(SortByYearDesc(SubSeq(docs, 1, Len(docs) - 1)), docs[Len(docs)])

PendingSearch(p) == p \in DOMAIN passes /\ passes[p].pc = "search"

\* a continuation that found `cancelled` set returns without any effect
Discarded(p) == passes' = [passes EXCEPT ![p] = Settled("discarded")]

\* a query branch that leaves the document list in place
SearchResolvesKeepingDocuments(p, ids) ==
    /\ PendingSearch(p)
    /\ passes[p].endpoint \in ChunkEndpoints
    /\ LET response == GatewayResponse(p, ids)
           missing  == MissingDocIds(response, documentCacheRef)
       IN  IF IsCancelled(passes[p])
           THEN /\ Discarded(p)
                /\ UNCHANGED <<searchResponse, resultsLoading>>
           ELSE /\ Len(missing) <= MaxEnrich
                /\ searchResponse' = Some(response)
                /\ IF Len(missing) > 0
                   THEN /\ passes' = [passes EXCEPT
                               ![p].pc = "enrich",
                               ![p].missing = missing,
                               ![p].fetched = [i \in 1..Len(missing) |-> "pending"]]
                        /\ UNCHANGED resultsLoading
                   ELSE /\ passes' = [passes EXCEPT ![p].pc = "done"]
                        /\ resultsLoading' = FALSE
    /\ UNCHANGED <<query, searchMode, selectedCompanies, resultsError,
                   documentResults, documentCache, documentCacheRef>>
    /\ UNCHANGED <<filterVars, drawerVars, putAllCall, apiCall>>

\* `await api.searchFTS|searchVector|searchHybrid(request)` resolves
SearchResolves(p, ids) ==
    /\ PendingSearch(p)
    /\ passes[p].endpoint \in ChunkEndpoints
    /\ LET response == GatewayResponse(p, ids)
           missing  == MissingDocIds(response, documentCacheRef)
       IN  IF IsCancelled(passes[p])
           THEN /\ Discarded(p)
                /\ UNCHANGED <<searchResponse, documentResults, resultsLoading>>
           ELSE /\ Len(missing) <= MaxEnrich
                /\ searchResponse' = Some(response)
                /\ documentResults' = <<>>
                /\ IF Len(missing) > 0
                   THEN /\ passes' = [passes EXCEPT
                               ![p].pc = "enrich",
                               ![p].missing = missing,
                               ![p].fetched = [i \in 1..Len(missing) |-> "pending"]]
                        /\ UNCHANGED resultsLoading
                   ELSE /\ passes' = [passes EXCEPT ![p].pc = "done"]
                        /\ resultsLoading' = FALSE
    /\ UNCHANGED <<query, searchMode, selectedCompanies, resultsError,
                   documentCache, documentCacheRef>>
    /\ UNCHANGED <<filterVars, drawerVars, putAllCall, apiCall>>

\* the state after the Promise.all of the enrichment has resolved
EnrichmentDone(p, fetched) ==
    IF IsCancelled(passes[p])
    THEN /\ Discarded(p)
         /\ UNCHANGED <<documentCache, documentCacheRef, resultsLoading>>
    ELSE /\ passes' = [passes EXCEPT ![p].fetched = fetched, ![p].pc = "done"]
         /\ documentCache' =
                CacheDocuments(documentCache, EnrichedDocs(passes[p].missing, fetched))
         /\ documentCacheRef' = documentCache'
         /\ resultsLoading' = FALSE

\* one `api.getDocumentById(docId)` of the enrichment resolves or throws
EnrichmentFetchResolves(p, i, outcome) ==
    /\ p \in DOMAIN passes
    /\ passes[p].pc = "enrich"
    /\ i \in 1..Len(passes[p].missing)
    /\ passes[p].fetched[i] = "pending"
    /\ LET fetched == [passes[p].fetched EXCEPT ![i] = outcome]
       IN  IF \E j \in 1..Len(fetched) : fetched[j] = "pending"
           THEN /\ passes' = [passes EXCEPT ![p].fetched = fetched]
                /\ UNCHANGED <<documentCache, documentCacheRef, resultsLoading>>
           ELSE EnrichmentDone(p, fetched)
    /\ UNCHANGED <<query, searchMode, selectedCompanies, resultsError,
                   searchResponse, documentResults>>
    /\ UNCHANGED <<filterVars, drawerVars, putAllCall, apiCall>>

\* `await api.searchDocuments(...)` resolves
DocumentsResolve(p, docs) ==
    /\ PendingSearch(p)
    /\ passes[p].endpoint = "searchDocuments"
    /\ IF IsCancelled(passes[p])
       THEN /\ Discarded(p)
            /\ UNCHANGED <<searchResponse, documentResults, resultsLoading,
                           documentCache, documentCacheRef>>
       ELSE LET sortedDocs == SortByYearDesc(docs)
            IN  /\ documentResults' = sortedDocs
                /\ searchResponse' = Null
                /\ documentCache' = CacheDocuments(documentCache, sortedDocs)
                /\ documentCacheRef' = documentCache'
                /\ resultsLoading' = FALSE
                /\ passes' = [passes EXCEPT ![p].pc = "done"]
    /\ UNCHANGED <<query, searchMode, selectedCompanies, resultsError>>
    /\ UNCHANGED <<filterVars, drawerVars, putAllCall, apiCall>>

\* a catch block that only sets the message
FailureShownKeepingResults(message) ==
    /\ resultsError' = message
    /\ UNCHANGED <<searchResponse, documentResults>>

\* the catch block of fetchResults, for a pass that is still current
FailureShown(message) ==
    /\ resultsError' = message
    /\ searchResponse' = Null
    /\ documentResults' = <<>>

\* the awaited search or document request of a pass throws
RequestFails(p, message) ==
    /\ PendingSearch(p)
    /\ IF IsCancelled(passes[p])
       THEN /\ Discarded(p)
            /\ UNCHANGED <<resultsError, searchResponse, documentResults, resultsLoading>>
       ELSE /\ FailureShown(message)
               /\ resultsLoading' = FALSE
            /\ passes' = [passes EXCEPT
                   ![p].pc = "failed",
                   ![p].replaced = searchResponse # Null \/ documentResults # <<>>]
    /\ UNCHANGED <<query, searchMode, selectedCompanies, documentCache, documentCacheRef>>
    /\ UNCHANGED <<filterVars, drawerVars, putAllCall, apiCall>>

-----------------------------------------------------------------------------
(* Specification of the Search Orchestrator *)

Init ==
    /\ query = <<>>
    /\ searchMode = "hybrid"
    /\ selectedCompanies = EmptyMap
    /\ resultsLoading = FALSE
    /\ resultsError = NoError
    /\ searchResponse = Null
    /\ documentResults = <<>>
    /\ documentCache = EmptyMap
    /\ documentCacheRef = EmptyMap
    /\ passes = <<>>
    /\ companySearch = <<>>
    /\ searchResults = Null
    /\ searchLoading = FALSE
    /\ searchError = NoError
    /\ filterPasses = <<>>
    /\ activeDocId = Null
    /\ activeDocMeta = Null
    /\ activeSections = Null
    /\ drawerLoading = FALSE
    /\ drawerError = NoError
    /\ drawerCalls = <<>>
    /\ putAllCall = Null
    /\ apiCall = Null

Next ==
    \/ \E q \in Queries : SetQuery(q)
    \/ \E m \in SearchModes : SetSearchMode(m)
    \/ \E company \in Roster : HandleCompanyToggle(company)
    \/ ClearSelectedCompanies
    \/ \E p \in 1..MaxPasses, ids \in ChunkDocIdLists : SearchResolves(p, ids)
    \/ \E p \in 1..MaxPasses, docs \in DocumentLists : DocumentsResolve(p, docs)
    \/ \E p \in 1..MaxPasses, message \in ErrorMessages : RequestFails(p, message)
    \/ \E p \in 1..MaxPasses, i \in 1..MaxEnrich, outcome \in {"ok", "fail"} :
           EnrichmentFetchResolves(p, i, outcome)

Spec == Init /\ [][Next]_vars

-----------------------------------------------------------------------------
(* Properties of the Search Orchestrator *)

\* the tickers of the selected companies, as a set
SelectedTickerSet ==
    {selectedCompanies[c].ticker : c \in DOMAIN selectedCompanies} \ {""}

ExpectedEndpoint ==
    CASE searchMode = "fts" -> "searchFTS"
      [] searchMode = "vector" -> "searchVector"
      [] searchMode = "hybrid" -> "searchHybrid"

resultVars == <<searchResponse, documentResults, resultsError, resultsLoading,
                documentCache>>

\* C1: a resolution (success or failure of the search or document request, or
\* of an enrichment fetch) of a pass that is already superseded changes none
\* of searchResponse, documentResults, resultsError, resultsLoading and the
\* Document Cache.
StaleResolutionIsDiscarded ==
    [][\A p \in DOMAIN passes :
          (passes[p].cancelled /\ passes'[p] # passes[p])
              => UNCHANGED resultVars]_vars

\* a superseded pass has resolved and the results of the newer pass stand
StaleResolutionWitness ==
    /\ \E p \in DOMAIN passes : passes[p].pc = "discarded"
    /\ CurrentPass # 0
    /\ passes[CurrentPass].pc = "done"
    /\ searchResponse # Null
    /\ searchResponse[1].pass = CurrentPass

\* the strings that join the elements of S with commas, in any order
RECURSIVE JoinedForms(_)
JoinedForms(S) ==
    IF S = {} THEN {""}
    ELSE IF Cardinality(S) = 1 THEN S
    ELSE UNION {{t \o "," \o rest : rest \in JoinedForms(S \ {t})} : t \in S}

\* C4: the request of the current pass carries exactly the tickers of the
\* companies selected now (the tickers list of a chunk search, absent when no
\* ticker is selected; the comma-joined tickers of a document search), so a
\* ticker deselected or cleared is carried by no later request.
RequestCarriesSelectedTickers ==
    CurrentPass # 0 =>
        LET pass == passes[CurrentPass]
        IN  IF pass.endpoint = "searchDocuments"
            THEN pass.request.tickers \in JoinedForms(SelectedTickerSet)
            ELSE IF "tickers" \in DOMAIN pass.request
                 THEN ToSet(pass.request.tickers) = SelectedTickerSet
                 ELSE SelectedTickerSet = {}

\* a document search for one ticker is still pending when a second company is
\* selected; the request of the new pass carries both tickers
TwoTickersWitness ==
    /\ CurrentPass # 0
    /\ passes[CurrentPass].endpoint = "searchDocuments"
    /\ passes[CurrentPass].request.tickers = "AAPL,MSFT"
    /\ \E p \in DOMAIN passes :
           /\ passes[p].cancelled
           /\ passes[p].pc = "search"
           /\ passes[p].endpoint = "searchDocuments"
           /\ passes[p].request.tickers \in {"AAPL", "MSFT"}

\* C5: whenever the trimmed query is empty and no ticker is selected, no
\* request of a current pass is outstanding and the result state is idle and
\* empty, also after a request pending at that moment has resolved.
IdleInputMeansIdleState ==
    (Trim(query) = <<>> /\ SelectedTickerSet = {}) =>
        /\ CurrentPass = 0
        /\ searchResponse = Null
        /\ documentResults = <<>>
        /\ resultsError = NoError
        /\ resultsLoading = FALSE

\* the inputs are idle and the request that was pending when they became idle
\* has resolved since
IdleAfterLateResolutionWitness ==
    /\ Trim(query) = <<>>
    /\ SelectedTickerSet = {}
    /\ passes # <<>>
    /\ passes[Len(passes)].pc = "discarded"

\* C6: with a non-empty trimmed query the current pass has issued one search
\* request: to the endpoint of the mode, carrying the trimmed query and the
\* limit 20, with a tickers field exactly when a ticker is selected; it is not
\* a document search.
QueryPassIssuesOneSearch ==
    Trim(query) # <<>> =>
        /\ CurrentPass # 0
        /\ LET pass == passes[CurrentPass]
           IN  /\ pass.endpoint = ExpectedEndpoint
               /\ pass.endpoint # "searchDocuments"
               /\ pass.request.query = Trim(query)
               /\ pass.request.limit = 20
               /\ ("tickers" \in DOMAIN pass.request) <=> (SelectedTickerSet # {})

\* a full-text search filtered by a ticker is pending
QueryPassWitness ==
    /\ CurrentPass # 0
    /\ passes[CurrentPass].pc = "search"
    /\ passes[CurrentPass].endpoint = "searchFTS"
    /\ "tickers" \in DOMAIN passes[CurrentPass].request
    /\ passes[CurrentPass].request.tickers = <<"AAPL">>

\* C7: when the request of the current pass fails, one error message is set,
\* searchResponse becomes null and documentResults empty, and the selected
\* companies, the query and the search mode stay as they are.
FailureClearsResults ==
    [][(\E p \in DOMAIN passes :
           ~passes[p].cancelled /\ passes[p].pc = "search" /\ passes'[p].pc = "failed")
       => /\ resultsError' \in ErrorMessages
          /\ searchResponse' = Null
          /\ documentResults' = <<>>
          /\ UNCHANGED <<selectedCompanies, query, searchMode>>]_vars

\* a hybrid search failed while results of an earlier pass were visible
FailureWitness ==
    /\ CurrentPass # 0
    /\ passes[CurrentPass].pc = "failed"
    /\ passes[CurrentPass].endpoint = "searchHybrid"
    /\ passes[CurrentPass].replaced
    /\ resultsError \in ErrorMessages
    /\ searchResponse = Null
    /\ documentResults = <<>>

\* C8: the response of a pass that a mode switch (or any other input change)
\* has superseded never becomes the visible searchResponse, and once the
\* request of the current pass has resolved the visible searchResponse is the
\* one of the current mode's endpoint.
ModeSwitchShowsNewModeOnly ==
    /\ [][\A p \in DOMAIN passes :
             (passes[p].cancelled /\ searchResponse' # Null /\ searchResponse'[1].pass = p)
                 => searchResponse' = searchResponse]_vars
    /\ []((CurrentPass # 0 /\ passes[CurrentPass].pc \in {"enrich", "done"}
              /\ passes[CurrentPass].endpoint \in ChunkEndpoints)
          => /\ searchResponse # Null
             /\ searchResponse[1].pass = CurrentPass
             /\ searchResponse[1].method = ExpectedEndpoint)

\* the mode was switched from fts to vector while the fts request was pending;
\* the vector response is visible and the fts request is still outstanding
ModeSwitchWitness ==
    /\ CurrentPass # 0
    /\ passes[CurrentPass].endpoint = "searchVector"
    /\ passes[CurrentPass].pc = "done"
    /\ \E p \in DOMAIN passes :
           /\ passes[p].cancelled
           /\ passes[p].endpoint = "searchFTS"
           /\ passes[p].pc = "search"
           /\ passes[p].request = passes[CurrentPass].request
    /\ searchResponse # Null
    /\ searchResponse[1].method = "searchVector"

\* the doc_ids the chunks of a response reference
ReferencedDocIds(response) ==
    {response.results[i].doc_id : i \in 1..Len(response.results)} \ {""}

\* C9: when the chunk search of the current pass succeeds, metadata is fetched
\* for exactly the referenced documents that are absent from the Document
\* Cache at that moment.
EnrichmentFetchesUncachedOnly ==
    [][\A p \in DOMAIN passes :
          (/\ ~passes[p].cancelled
           /\ passes[p].pc = "search"
           /\ passes'[p].pc \in {"enrich", "done"}
           /\ passes[p].endpoint \in ChunkEndpoints)
          => ToSet(passes'[p].missing) =
                 ReferencedDocIds(searchResponse'[1]) \ DOMAIN documentCache]_vars

\* five chunks reference three documents, two of them cached: one fetch
FiveChunksWitness ==
    /\ CurrentPass # 0
    /\ passes[CurrentPass].pc = "enrich"
    /\ searchResponse # Null
    /\ Len(searchResponse[1].results) = 5
    /\ ReferencedDocIds(searchResponse[1]) = {"d1", "d2", "d3"}
    /\ DOMAIN documentCache = {"d1", "d2"}
    /\ passes[CurrentPass].missing = <<"d3">>
    /\ passes[CurrentPass].fetched = <<"pending">>

\* C10: a failed enrichment fetch sets no error and keeps searchResponse; when
\* the batch is complete every document whose fetch succeeded is cached, and a
\* document all of whose fetches failed is the only kind left out.
EnrichmentFailureIsIsolated ==
    (CurrentPass # 0 /\ passes[CurrentPass].pc \in {"enrich", "done"}
        /\ passes[CurrentPass].endpoint \in ChunkEndpoints) =>
        LET pass == passes[CurrentPass]
            n == Len(pass.missing)
        IN  /\ resultsError = NoError
            /\ searchResponse # Null
            /\ pass.pc = "done" =>
                   \A i \in 1..n :
                       IF \E j \in 1..n : pass.missing[j] = pass.missing[i]
                                          /\ pass.fetched[j] = "ok"
                       THEN /\ pass.missing[i] \in DOMAIN documentCache
                            /\ documentCache[pass.missing[i]].doc_id = pass.missing[i]
                       ELSE pass.missing[i] \notin DOMAIN documentCache

\* one fetch of the batch failed, another succeeded and its document is cached
EnrichmentFailureWitness ==
    /\ CurrentPass # 0
    /\ passes[CurrentPass].pc = "done"
    /\ passes[CurrentPass].missing = <<"d2", "d3">>
    /\ passes[CurrentPass].fetched = <<"fail", "ok">>
    /\ "d3" \in DOMAIN documentCache
    /\ "d2" \notin DOMAIN documentCache
    /\ resultsError = NoError
    /\ searchResponse # Null

\* renderResultsPane: which of its branches the results pane shows
renderResultsPane ==
    LET hasQuery == Len(Trim(query)) > 0
        hasSelections == Cardinality(DOMAIN selectedCompanies) > 0
    IN  IF ~hasQuery /\ ~hasSelections THEN "start"
        ELSE IF resultsLoading THEN "loading"
        ELSE IF resultsError # NoError THEN "error"
        ELSE IF hasQuery
             THEN IF searchResponse = Null \/ searchResponse[1].results = <<>>
                  THEN "no matches"
                  ELSE "chunks"
        ELSE IF documentResults = <<>> THEN "no filings"
        ELSE "documents"

\* C11: once the chunk response of the current pass has been applied, the
\* results pane shows the chunk results of that response and not the loading
\* state, also while enrichment fetches of the pass are unresolved or failed.
EnrichmentDoesNotBlockResults ==
    (/\ CurrentPass # 0
     /\ passes[CurrentPass].endpoint \in ChunkEndpoints
     /\ passes[CurrentPass].pc \in {"enrich", "done"})
    => /\ searchResponse # Null
       /\ searchResponse[1].pass = CurrentPass
       /\ renderResultsPane = "chunks"

\* the number of elements of seq equal to x
Count(seq, x) == Cardinality({i \in 1..Len(seq) : seq[i] = x})

IsPermutation(a, b) ==
    /\ Len(a) = Len(b)
    /\ \A x \in ToSet(a) \cup ToSet(b) : Count(a, x) = Count(b, x)

\* C12: after the document search of a ticker-only pass has succeeded, the
\* visible document list is a permutation of a list the gateway returned and
\* is ordered by year descending, a document without a usable year counting
\* as year zero and so standing after every document with a positive year.
DocumentsSortedByYearDesc ==
    (/\ CurrentPass # 0
     /\ passes[CurrentPass].endpoint = "searchDocuments"
     /\ passes[CurrentPass].pc = "done")
    => /\ \E docs \in DocumentLists : IsPermutation(documentResults, docs)
       /\ \A i, j \in 1..Len(documentResults) :
              i < j => documentResults[i].year >= documentResults[j].year
       /\ \A i, j \in 1..Len(documentResults) :
              (documentResults[i].year = 0 /\ documentResults[j].year > 0) => j < i

\* the gateway returned the year-less document first; it is shown last
YearlessLastWitness ==
    /\ CurrentPass # 0
    /\ passes[CurrentPass].endpoint = "searchDocuments"
    /\ passes[CurrentPass].pc = "done"
    /\ Trim(query) = <<>>
    /\ Len(documentResults) = 3
    /\ documentResults[1].year = 2020
    /\ documentResults[2].year = 2019
    /\ documentResults[3].year = 0

-----------------------------------------------------------------------------
(* Company Filter: text helpers *)

LowerLetters == <<"a", "b", "c", "d", "e", "f", "g", "h", "i", "j", "k", "l", "m",
                  "n", "o", "p", "q", "r", "s", "t", "u", "v", "w", "x", "y", "z">>

UpperLetters == <<"A", "B", "C", "D", "E", "F", "G", "H", "I", "J", "K", "L", "M",
                  "N", "O", "P", "Q", "R", "S", "T", "U", "V", "W", "X", "Y", "Z">>

Digits == {"0", "1", "2", "3", "4", "5", "6", "7", "8", "9"}

IndexIn(seq, ch) ==
    IF \E i \in 1..Len(seq) : seq[i] = ch
    THEN CHOOSE i \in 1..Len(seq) : seq[i] = ch
    ELSE 0

\* String.prototype.toUpperCase
ToUpperCase(text) ==
    [i \in 1..Len(text) |->
        IF IndexIn(LowerLetters, text[i]) > 0
        THEN UpperLetters[IndexIn(LowerLetters, text[i])]
        ELSE text[i]]

\* String.prototype.toLowerCase
ToLowerCase(text) ==
    [i \in 1..Len(text) |->
        IF IndexIn(UpperLetters, text[i]) > 0
        THEN LowerLetters[IndexIn(UpperLetters, text[i])]
        ELSE text[i]]

\* the character class [A-Za-z0-9.-]
IsTickerChar(ch) ==
    \/ IndexIn(LowerLetters, ch) > 0
    \/ IndexIn(UpperLetters, ch) > 0
    \/ ch \in Digits
    \/ ch \in {".", "-"}

\* a pattern without the upper limit of the quantifier
LooksLikeTickerOfAnyLength(term) ==
    /\ Len(term) >= 1
    /\ \A i \in 1..Len(term) : IsTickerChar(term[i])

\* /^[A-Za-z0-9.-]{1,6}$/.test(term)
LooksLikeTicker(term) ==
    /\ Len(term) >= 1
    /\ Len(term) <= 6
    /\ \A i \in 1..Len(term) : IsTickerChar(term[i])

\* a.localeCompare(b) < 0 for lower-case letter strings
RECURSIVE ComesBefore(_, _)
ComesBefore(a, b) ==
    IF b = <<>> THEN FALSE
    ELSE IF a = <<>> THEN TRUE
    ELSE IF Head(a) = Head(b) THEN ComesBefore(Tail(a), Tail(b))
    ELSE IndexIn(LowerLetters, Head(a)) < IndexIn(LowerLetters, Head(b))

RECURSIVE InsertByName(_, _)
InsertByName(sorted, company) ==
    IF sorted = <<>> THEN <<company>>
    ELSE IF ComesBefore(ToLowerCase(company.name), ToLowerCase(Head(sorted).name))
         THEN <<company>> \o sorted
         ELSE <<Head(sorted)>> \o InsertByName(Tail(sorted), company)

\* sortCompanies: a stable sort by lower-cased name
RECURSIVE sortCompanies(_)
sortCompanies(list) ==
    IF list = <<>> THEN <<>>
    ELSE InsertByName(sortCompanies(SubSeq(list, 1, Len(list) - 1)), list[Len(list)])

\* merged.set(company.cik, company): a Map keeps the position of the first
\* insertion of a key and the value of the last
MapSet(entries, company) ==
    IF \E i \in 1..Len(entries) : entries[i].cik = company.cik
    THEN [i \in 1..Len(entries) |->
             IF entries[i].cik = company.cik THEN company ELSE entries[i]]
    ELSE Append(entries, company)

RECURSIVE MergeByCik(_, _)
MergeByCik(entries, list) ==
    IF list = <<>> THEN entries
    ELSE MergeByCik(MapSet(entries, Head(list)), Tail(list))

\* responses.flat()
RECURSIVE Flat(_)
Flat(responses) ==
    IF responses = <<>> THEN <<>>
    ELSE Head(responses)[1] \o Flat(Tail(responses))

\* the value handed to setSearchResults on success
MergedResults(responses) == sortCompanies(MergeByCik(<<>>, Flat(responses)))

\* a value of searchResults; `term` records the filter text whose requests
\* produced it
FilterResult(term, companies) == Some([term |-> term, companies |-> companies])

-----------------------------------------------------------------------------
(* Company Filter of TenKFileExplorer *)

\* the requests array of the company search effect
ExplorerRequests(term) ==
    <<[name |-> term, limit |-> COMPANY_SEARCH_LIMIT, has_documents_only |-> TRUE]>>
    \o (IF LooksLikeTicker(term)
        THEN <<[ticker |-> ToUpperCase(term), limit |-> COMPANY_SEARCH_LIMIT,
                has_documents_only |-> TRUE]>>
        ELSE <<>>)

NewFilterPass(term, requests) ==
    [term      |-> term,
     cancelled |-> FALSE,
     pc        |-> "requests",
     requests  |-> requests,
     responses |-> [i \in 1..Len(requests) |-> Null]]

\* a filter input whose change also runs the cleanup of the results effect
SetCompanySearchCancellingPass(text) ==
    /\ text # companySearch
    /\ companySearch' = text
    /\ IF Trim(text) = <<>>
       THEN /\ searchResults' = Null
            /\ UNCHANGED filterPasses
       ELSE /\ Len(filterPasses) < MaxFilterPasses
            /\ filterPasses' =
                   Append(filterPasses, NewFilterPass(Trim(text), ExplorerRequests(Trim(text))))
            /\ UNCHANGED searchResults
    /\ passes' = CleanedUp
    /\ UNCHANGED <<searchLoading, searchError>>
    /\ UNCHANGED <<query, searchMode, selectedCompanies, resultsLoading, resultsError,
                   searchResponse, documentResults, documentCache, documentCacheRef>>
    /\ UNCHANGED <<drawerVars, putAllCall, apiCall>>

\* onChange of the company filter input, and the effect that follows
SetCompanySearch(text) ==
    /\ text # companySearch
    /\ companySearch' = text
    /\ IF Trim(text) = <<>>
       THEN /\ searchResults' = Null
            /\ UNCHANGED filterPasses
       ELSE /\ Len(filterPasses) < MaxFilterPasses
            /\ filterPasses' =
                   Append(filterPasses, NewFilterPass(Trim(text), ExplorerRequests(Trim(text))))
            /\ UNCHANGED searchResults
    /\ UNCHANGED <<searchLoading, searchError>>
    /\ UNCHANGED <<orchVars, drawerVars, putAllCall, apiCall>>

PendingRequest(p, i) ==
    /\ p \in 1..Len(filterPasses)
    /\ filterPasses[p].pc = "requests"
    /\ i \in 1..Len(filterPasses[p].requests)
    /\ filterPasses[p].responses[i] = Null

\* requests that are merged into the result one by one, as each resolves
CompanySearchResolvesOneByOne(p, i, list) ==
    /\ PendingRequest(p, i)
    /\ LET responses == [filterPasses[p].responses EXCEPT ![i] = Some(list)]
       IN  /\ filterPasses' =
                  [filterPasses EXCEPT
                      ![p].responses = responses,
                      ![p].pc = IF \E j \in 1..Len(responses) : responses[j] = Null
                                THEN "requests" ELSE "done"]
           /\ searchResults' =
                  FilterResult(filterPasses[p].term,
                               MergedResults([j \in 1..Len(responses) |->
                                   IF responses[j] = Null THEN Some(<<>>)
                                   ELSE responses[j]]))
    /\ UNCHANGED <<companySearch, searchLoading, searchError>>
    /\ UNCHANGED <<orchVars, drawerVars, putAllCall, apiCall>>

\* one api.searchCompanies of a Promise.all resolves; the .then handler runs
\* once all of them have
CompanySearchResolves(p, i, list) ==
    /\ PendingRequest(p, i)
    /\ LET responses == [filterPasses[p].responses EXCEPT ![i] = Some(list)]
       IN  IF \E j \in 1..Len(responses) : responses[j] = Null
           THEN /\ filterPasses' = [filterPasses EXCEPT ![p].responses = responses]
                /\ UNCHANGED searchResults
           ELSE /\ filterPasses' = [filterPasses EXCEPT ![p].responses = responses,
                                                         ![p].pc = "done"]
                /\ searchResults' =
                       FilterResult(filterPasses[p].term, MergedResults(responses))
    /\ UNCHANGED <<companySearch, searchLoading, searchError>>
    /\ UNCHANGED <<orchVars, drawerVars, putAllCall, apiCall>>

\* a .catch that only logs the failure
CompanySearchFailsKeepingResults(p, i) ==
    /\ PendingRequest(p, i)
    /\ filterPasses' = [filterPasses EXCEPT ![p].pc = "failed"]
    /\ UNCHANGED <<companySearch, searchResults, searchLoading, searchError>>
    /\ UNCHANGED <<orchVars, drawerVars, putAllCall, apiCall>>

\* one api.searchCompanies throws: the Promise.all rejects and .catch runs
CompanySearchFails(p, i) ==
    /\ PendingRequest(p, i)
    /\ filterPasses' = [filterPasses EXCEPT ![p].pc = "failed"]
    /\ searchResults' = FilterResult(filterPasses[p].term, <<>>)
    /\ UNCHANGED <<companySearch, searchLoading, searchError>>
    /\ UNCHANGED <<orchVars, drawerVars, putAllCall, apiCall>>

NextFilter ==
    \/ \E text \in FilterTexts : SetCompanySearch(text)
    \/ \E p \in 1..MaxFilterPasses, i \in 1..2, list \in CompanyLists :
           CompanySearchResolves(p, i, list)
    \/ \E p \in 1..MaxFilterPasses, i \in 1..2 : CompanySearchFails(p, i)

SpecFilter == Init /\ [][NextFilter]_vars

\* C2: after a filter text was entered, only results computed for that text
\* are written to searchResults, whatever the order in which the request pairs
\* of this and of earlier texts resolve.
OnlyLatestTextIsWritten ==
    [][(/\ Trim(companySearch') # <<>>
        /\ searchResults' # searchResults
        /\ searchResults' # Null)
          => searchResults'[1].term = Trim(companySearch')]_vars

-----------------------------------------------------------------------------
(* Company Filter of TakeHomeLayout *)

\* the requests array built in the timer callback
LayoutRequests(term) ==
    <<[name |-> term, limit |-> COMPANY_SEARCH_LIMIT]>>
    \o (IF LooksLikeTicker(term)
        THEN <<[ticker |-> ToUpperCase(term), limit |-> COMPANY_SEARCH_LIMIT]>>
        ELSE <<>>)

\* window.setTimeout(..., 250): the pass waits for its timer
NewLayoutPass(term) ==
    [term      |-> term,
     cancelled |-> FALSE,
     pc        |-> "timer",
     requests  |-> <<>>,
     responses |-> <<>>]

\* a cleanup that sets the flag and leaves the timer running
LayoutCleanedUpKeepingTimer ==
    [p \in 1..Len(filterPasses) |-> [filterPasses[p] EXCEPT !.cancelled = TRUE]]

\* the effect's cleanup: cancelled = true; window.clearTimeout(timer)
LayoutCleanedUp ==
    [p \in 1..Len(filterPasses) |->
        IF filterPasses[p].cancelled THEN filterPasses[p]
        ELSE [filterPasses[p] EXCEPT
                 !.cancelled = TRUE,
                 !.pc = IF filterPasses[p].pc = "timer" THEN "cleared" ELSE @]]

LayoutFlagIgnored(pass) == FALSE

\* the `cancelled` flag read by `if (!cancelled)`
LayoutFlag(pass) == pass.cancelled

\* onChange of the company filter input: cleanup of the previous effect run,
\* then the effect for the new text
LayoutSetCompanySearch(text) ==
    /\ text # companySearch
    /\ companySearch' = text
    /\ IF Trim(text) = <<>>
       THEN /\ filterPasses' = LayoutCleanedUp
            /\ searchResults' = Null
            /\ searchError' = NoError
            /\ searchLoading' = FALSE
       ELSE /\ Len(filterPasses) < MaxFilterPasses
            /\ filterPasses' = Append(LayoutCleanedUp, NewLayoutPass(Trim(text)))
            /\ searchLoading' = TRUE
            /\ searchError' = NoError
            /\ UNCHANGED searchResults
    /\ UNCHANGED <<orchVars, drawerVars, putAllCall, apiCall>>

\* the 250 ms timer fires: the requests are issued
LayoutTimerFires(p) ==
    /\ p \in 1..Len(filterPasses)
    /\ filterPasses[p].pc = "timer"
    /\ filterPasses' =
           [filterPasses EXCEPT
               ![p].pc = "requests",
               ![p].requests = LayoutRequests(filterPasses[p].term),
               ![p].responses =
                   [i \in 1..Len(LayoutRequests(filterPasses[p].term)) |-> Null]]
    /\ UNCHANGED <<companySearch, searchResults, searchLoading, searchError>>
    /\ UNCHANGED <<orchVars, drawerVars, putAllCall, apiCall>>

\* one api.searchCompanies of the awaited Promise.all resolves; the code after
\* the await runs once all of them have
LayoutSearchResolves(p, i, list) ==
    /\ PendingRequest(p, i)
    /\ LET responses == [filterPasses[p].responses EXCEPT ![i] = Some(list)]
       IN  IF \E j \in 1..Len(responses) : responses[j] = Null
           THEN /\ filterPasses' = [filterPasses EXCEPT ![p].responses = responses]
                /\ UNCHANGED <<searchResults, searchLoading>>
           ELSE IF LayoutFlag(filterPasses[p])
           THEN /\ filterPasses' = [filterPasses EXCEPT ![p].responses = responses,
                                                         ![p].pc = "discarded"]
                /\ UNCHANGED <<searchResults, searchLoading>>
           ELSE /\ filterPasses' = [filterPasses EXCEPT ![p].responses = responses,
                                                         ![p].pc = "done"]
                /\ searchResults' =
                       FilterResult(filterPasses[p].term, MergedResults(responses))
                /\ searchLoading' = FALSE
    /\ UNCHANGED <<companySearch, searchError>>
    /\ UNCHANGED <<orchVars, drawerVars, putAllCall, apiCall>>

\* one api.searchCompanies throws: the await throws and the catch block runs
LayoutSearchFails(p, i, message) ==
    /\ PendingRequest(p, i)
    /\ IF LayoutFlag(filterPasses[p])
       THEN /\ filterPasses' = [filterPasses EXCEPT ![p].pc = "discarded"]
            /\ UNCHANGED <<searchResults, searchLoading, searchError>>
       ELSE /\ filterPasses' = [filterPasses EXCEPT ![p].pc = "failed"]
            /\ searchError' = message
            /\ searchResults' = FilterResult(filterPasses[p].term, <<>>)
            /\ searchLoading' = FALSE
    /\ UNCHANGED companySearch
    /\ UNCHANGED <<orchVars, drawerVars, putAllCall, apiCall>>

NextLayout ==
    \/ \E text \in FilterTexts : LayoutSetCompanySearch(text)
    \/ \E p \in 1..MaxFilterPasses : LayoutTimerFires(p)
    \/ \E p \in 1..MaxFilterPasses, i \in 1..2, list \in CompanyLists :
           LayoutSearchResolves(p, i, list)
    \/ \E p \in 1..MaxFilterPasses, i \in 1..2, message \in ErrorMessages :
           LayoutSearchFails(p, i, message)

SpecLayout == Init /\ [][NextLayout]_vars

layoutVisible == <<searchResults, searchError, searchLoading>>

\* C3: once the filter text has changed, every earlier pass is marked
\* cancelled; a step of a cancelled pass (its requests resolving or failing)
\* leaves searchResults, searchError and searchLoading as they were; and a
\* result a pass writes is the one computed for the current text.
CancelledLayoutPassUpdatesNothing ==
    /\ [](\A p \in 1..Len(filterPasses) :
            \/ filterPasses[p].cancelled
            \/ p = Len(filterPasses) /\ filterPasses[p].term = Trim(companySearch))
    /\ [][\A p \in 1..Len(filterPasses) :
            (filterPasses[p].cancelled /\ filterPasses'[p] # filterPasses[p])
                => UNCHANGED layoutVisible]_vars
    /\ [][(companySearch' = companySearch /\ layoutVisible' # layoutVisible)
            => /\ ~filterPasses[Len(filterPasses)].cancelled
               /\ filterPasses'[Len(filterPasses)].pc \in {"done", "failed"}
               /\ searchResults'[1].term = Trim(companySearch)]_vars

\* the pass for "A" was overtaken while its requests were in flight and
\* resolved late; the pass for "AA" has written its result
LateLayoutResolutionWitness ==
    /\ Len(filterPasses) = 2
    /\ filterPasses[1].term = <<"A">>
    /\ filterPasses[1].pc = "discarded"
    /\ filterPasses[2].term = <<"A", "A">>
    /\ filterPasses[2].pc = "done"
    /\ companySearch = <<"A", "A">>
    /\ searchResults = FilterResult(<<"A", "A">>, <<Apple, Microsoft>>)
    /\ ~searchLoading

-----------------------------------------------------------------------------
(* Document Cache: cacheDocuments as a function of the cache and its argument *)

\* the length of the arrays handed to cacheDocuments
MaxPutAll == 2

\* an earlier version of document d1
StaleDoc == [doc_id |-> "d1", cik |-> "1", year |-> 2018]

\* a document the gateway returned without doc_id
DocWithoutId == [doc_id |-> "", cik |-> "2", year |-> 0]

PutAllDocs == GatewayDocs \cup {StaleDoc, DocWithoutId}

\* the arrays handed to cacheDocuments
PutAllArgs == UNION {[1..n -> PutAllDocs] : n \in 0..MaxPutAll}

\* the caches the calls start from
PutAllCaches == {
    EmptyMap,
    [k \in {"d1"} |-> StaleDoc],
    [k \in {"d1", "d2"} |-> GatewayDocById(k)] }

InitCacheDocuments ==
    /\ query = <<>>
    /\ searchMode = "hybrid"
    /\ selectedCompanies = EmptyMap
    /\ resultsLoading = FALSE
    /\ resultsError = NoError
    /\ searchResponse = Null
    /\ documentResults = <<>>
    /\ documentCache \in PutAllCaches
    /\ documentCacheRef = documentCache
    /\ passes = <<>>
    /\ companySearch = <<>>
    /\ searchResults = Null
    /\ searchLoading = FALSE
    /\ searchError = NoError
    /\ filterPasses = <<>>
    /\ activeDocId = Null
    /\ activeDocMeta = Null
    /\ activeSections = Null
    /\ drawerLoading = FALSE
    /\ drawerError = NoError
    /\ drawerCalls = <<>>
    /\ putAllCall = Null
    /\ apiCall = Null

\* cacheDocuments(docs), and the commit of the state it sets
CallCacheDocuments(docs) ==
    /\ putAllCall' = Some([prev |-> documentCache, docs |-> docs])
    /\ documentCache' = CacheDocuments(documentCache, docs)
    /\ documentCacheRef' = documentCache'
    /\ UNCHANGED <<query, searchMode, selectedCompanies, resultsLoading, resultsError,
                   searchResponse, documentResults, passes>>
    /\ UNCHANGED <<filterVars, drawerVars, apiCall>>

NextCacheDocuments == \E docs \in PutAllArgs : CallCacheDocuments(docs)

SpecCacheDocuments == InitCacheDocuments /\ [][NextCacheDocuments]_vars

\* the non-empty doc_ids of an array of documents
IdsOf(docs) == {docs[i].doc_id : i \in 1..Len(docs)} \ {""}

\* the last entry of docs that carries the doc_id k
LastWithId(docs, k) ==
    docs[CHOOSE i \in 1..Len(docs) :
            /\ docs[i].doc_id = k
            /\ \A j \in 1..Len(docs) : docs[j].doc_id = k => j <= i]

\* C14: after cacheDocuments(docs) the cache maps every non-empty doc_id of
\* docs to the (last) entry that carries it, maps every other key as before,
\* and holds nothing for an entry without doc_id; the number of new entries is
\* the number of distinct non-empty doc_ids that were not cached.
PutAllInsertsOrOverwrites ==
    putAllCall # Null =>
        LET prev == putAllCall[1].prev
            docs == putAllCall[1].docs
        IN  /\ DOMAIN documentCache = DOMAIN prev \cup IdsOf(docs)
            /\ "" \notin DOMAIN documentCache
            /\ \A k \in IdsOf(docs) : documentCache[k] = LastWithId(docs, k)
            /\ \A k \in DOMAIN prev \ IdsOf(docs) : documentCache[k] = prev[k]
            /\ Cardinality(DOMAIN documentCache \ DOMAIN prev)
                   = Cardinality(IdsOf(docs) \ DOMAIN prev)

\* one well-formed and one doc_id-less entry: one new entry, and the cached
\* earlier version of d1 is left alone
OneNewEntryWitness ==
    /\ putAllCall # Null
    /\ putAllCall[1].prev = [k \in {"d1"} |-> StaleDoc]
    /\ putAllCall[1].docs = <<DocWithoutId, GatewayDocById("d3")>>
    /\ DOMAIN documentCache = {"d1", "d3"}
    /\ documentCache["d1"] = StaleDoc
    /\ documentCache["d3"] = GatewayDocById("d3")

-----------------------------------------------------------------------------
(* Document Drawer of TenKFileExplorer *)

\* openDocumentDrawer calls made in one behaviour
MaxOpens == 2

\* orchestration passes started in one behaviour that also uses the drawer
MaxExplorerPasses == 1

\* the section lists the gateway may return for a document: none, or one
\* section of that document
GatewaySections(docId) == {<<>>, <<[section_id |-> docId \o "-s1"]>>}

\* the cards of the results pane: the docId and the metadata each hands to
\* onOpen (a chunk card hands documentCache[item.doc_id], a document card the
\* document itself)
OpenableCards ==
    IF renderResultsPane = "chunks"
    THEN {[docId |-> searchResponse[1].results[i].doc_id,
           meta  |-> IF searchResponse[1].results[i].doc_id \in DOMAIN documentCache
                     THEN Some(documentCache[searchResponse[1].results[i].doc_id])
                     ELSE Null] : i \in 1..Len(searchResponse[1].results)}
    ELSE IF renderResultsPane = "documents"
    THEN {[docId |-> documentResults[i].doc_id, meta |-> Some(documentResults[i])] :
             i \in 1..Len(documentResults)}
    ELSE {}

\* documentCacheRef.current[docId] ?? fallbackMeta ?? null
CachedMeta(docId, fallbackMeta) ==
    IF docId \in DOMAIN documentCacheRef THEN Some(documentCacheRef[docId])
    ELSE fallbackMeta

\* a call that fetches the metadata whether or not it is at hand
NewDrawerCallAlwaysFetching(docId, cachedMeta) ==
    [docId |-> docId, pc |-> "meta", meta |-> "pending"]

\* one call of openDocumentDrawer, at its first await: at the metadata fetch,
\* or at the sections fetch when the metadata was at hand
NewDrawerCall(docId, cachedMeta) ==
    [docId |-> docId,
     pc    |-> IF cachedMeta # Null THEN "sections" ELSE "meta",
     meta  |-> IF cachedMeta # Null THEN "cached" ELSE "pending"]

\* a call that has returned holds no state any more
Returned == [docId |-> "", pc |-> "returned", meta |-> ""]

orchNoCache == <<query, searchMode, selectedCompanies, resultsLoading, resultsError,
                 searchResponse, documentResults, passes>>

\* a click (or Enter) on a card: openDocumentDrawer(docId, fallbackMeta) up to
\* its first await; a card without doc_id returns at once
OpenDocumentDrawer(card) ==
    /\ card \in OpenableCards
    /\ card.docId # ""
    /\ Len(drawerCalls) < MaxOpens
    /\ activeDocId' = Some(card.docId)
    /\ drawerLoading' = TRUE
    /\ drawerError' = NoError
    /\ activeSections' = Null
    /\ LET cachedMeta == CachedMeta(card.docId, card.meta)
       IN  /\ activeDocMeta' = IF cachedMeta # Null THEN cachedMeta ELSE activeDocMeta
           /\ drawerCalls' = Append(drawerCalls, NewDrawerCall(card.docId, cachedMeta))
    /\ UNCHANGED <<orchNoCache, documentCache, documentCacheRef>>
    /\ UNCHANGED <<filterVars, putAllCall, apiCall>>

\* `await api.getDocumentById(docId)` of a call resolves: the document is
\* cached and shown, and the sections are requested
DrawerMetaResolves(c) ==
    /\ c \in 1..Len(drawerCalls)
    /\ drawerCalls[c].pc = "meta"
    /\ LET fetchedMeta == GatewayDocById(drawerCalls[c].docId)
       IN  /\ documentCache' = CacheDocuments(documentCache, <<fetchedMeta>>)
           /\ documentCacheRef' = documentCache'
           /\ activeDocMeta' = Some(fetchedMeta)
    /\ drawerCalls' = [drawerCalls EXCEPT ![c].pc = "sections", ![c].meta = "ok"]
    /\ UNCHANGED <<activeDocId, activeSections, drawerLoading, drawerError>>
    /\ UNCHANGED orchNoCache
    /\ UNCHANGED <<filterVars, putAllCall, apiCall>>

\* `await api.getDocumentById(docId)` throws: the catch sets drawerError, and
\* the sections are requested
DrawerMetaFails(c, message) ==
    /\ c \in 1..Len(drawerCalls)
    /\ drawerCalls[c].pc = "meta"
    /\ drawerError' = message
    /\ drawerCalls' = [drawerCalls EXCEPT ![c].pc = "sections", ![c].meta = "fail"]
    /\ UNCHANGED <<activeDocId, activeDocMeta, activeSections, drawerLoading>>
    /\ UNCHANGED <<orchNoCache, documentCache, documentCacheRef>>
    /\ UNCHANGED <<filterVars, putAllCall, apiCall>>

\* `await api.getDocumentSections(docId)` resolves; finally
DrawerSectionsResolve(c, sections) ==
    /\ c \in 1..Len(drawerCalls)
    /\ drawerCalls[c].pc = "sections"
    /\ sections \in GatewaySections(drawerCalls[c].docId)
    /\ activeSections' = Some(sections)
    /\ drawerLoading' = FALSE
    /\ drawerCalls' = [drawerCalls EXCEPT ![c] = Returned]
    /\ UNCHANGED <<activeDocId, activeDocMeta, drawerError>>
    /\ UNCHANGED <<orchNoCache, documentCache, documentCacheRef>>
    /\ UNCHANGED <<filterVars, putAllCall, apiCall>>

\* `await api.getDocumentSections(docId)` throws; catch and finally
DrawerSectionsFail(c, message) ==
    /\ c \in 1..Len(drawerCalls)
    /\ drawerCalls[c].pc = "sections"
    /\ drawerError' = message
    /\ drawerLoading' = FALSE
    /\ drawerCalls' = [drawerCalls EXCEPT ![c] = Returned]
    /\ UNCHANGED <<activeDocId, activeDocMeta, activeSections>>
    /\ UNCHANGED <<orchNoCache, documentCache, documentCacheRef>>
    /\ UNCHANGED <<filterVars, putAllCall, apiCall>>

\* closeDocumentDrawer: the close button, the backdrop or the Escape key of
\* an open drawer
CloseDocumentDrawer ==
    /\ activeDocId # Null
    /\ activeDocId' = Null
    /\ activeDocMeta' = Null
    /\ activeSections' = Null
    /\ drawerError' = NoError
    /\ drawerLoading' = FALSE
    /\ UNCHANGED drawerCalls
    /\ UNCHANGED <<orchNoCache, documentCache, documentCacheRef>>
    /\ UNCHANGED <<filterVars, putAllCall, apiCall>>

\* TenKDocumentDrawer: which branch of its body the drawer shows
DrawerBody ==
    IF activeDocId = Null THEN "closed"
    ELSE IF drawerLoading THEN "loading"
    ELSE IF drawerError # NoError THEN "error"
    ELSE IF activeSections # Null /\ Len(activeSections[1]) > 0 THEN "sections"
    ELSE "no sections"

\* the inputs of the explorer while the drawer is exercised
ExplorerQueries == {<<>>, <<"r">>}

\* a chunk response with a chunk without doc_id and two documents
ExplorerChunkLists == {<<"", "d1", "d3">>}

\* a document response with a document without doc_id and two documents
ExplorerDocumentLists == {<<DocWithoutId, GatewayDocById("d2"), GatewayDocById("d1")>>}

NextExplorer ==
    \/ \E q \in ExplorerQueries : SetQuery(q) /\ Len(passes') <= MaxExplorerPasses
    \/ HandleCompanyToggle(Apple) /\ Len(passes') <= MaxExplorerPasses
    \/ \E p \in 1..MaxPasses, ids \in ExplorerChunkLists : SearchResolves(p, ids)
    \/ \E p \in 1..MaxPasses, docs \in ExplorerDocumentLists : DocumentsResolve(p, docs)
    \/ \E p \in 1..MaxPasses, message \in ErrorMessages : RequestFails(p, message)
    \/ \E p \in 1..MaxPasses, i \in 1..MaxEnrich, outcome \in {"ok", "fail"} :
           EnrichmentFetchResolves(p, i, outcome)
    \/ \E card \in OpenableCards : OpenDocumentDrawer(card)
    \/ \E c \in 1..MaxOpens : DrawerMetaResolves(c)
    \/ \E c \in 1..MaxOpens, message \in ErrorMessages : DrawerMetaFails(c, message)
    \/ \E c \in 1..MaxOpens, sections \in UNION {GatewaySections(d) : d \in DocIds} :
           DrawerSectionsResolve(c, sections)
    \/ \E c \in 1..MaxOpens, message \in ErrorMessages : DrawerSectionsFail(c, message)
    \/ CloseDocumentDrawer

SpecExplorer == Init /\ [][NextExplorer]_vars

\* openDocumentDrawer calls made in one behaviour that is checked for what it
\* does to the Document Cache
MaxCacheOpens == 1

NextExplorerCache ==
    \/ \E q \in ExplorerQueries : SetQuery(q) /\ Len(passes') <= MaxExplorerPasses
    \/ HandleCompanyToggle(Apple) /\ Len(passes') <= MaxExplorerPasses
    \/ \E p \in 1..MaxPasses, ids \in ExplorerChunkLists : SearchResolves(p, ids)
    \/ \E p \in 1..MaxPasses, docs \in ExplorerDocumentLists : DocumentsResolve(p, docs)
    \/ \E p \in 1..MaxPasses, message \in ErrorMessages : RequestFails(p, message)
    \/ \E p \in 1..MaxPasses, i \in 1..MaxEnrich, outcome \in {"ok", "fail"} :
           EnrichmentFetchResolves(p, i, outcome)
    \/ \E card \in OpenableCards :
           Len(drawerCalls) < MaxCacheOpens /\ OpenDocumentDrawer(card)
    \/ \E c \in 1..MaxOpens : DrawerMetaResolves(c)
    \/ \E c \in 1..MaxOpens, message \in ErrorMessages : DrawerMetaFails(c, message)
    \/ \E c \in 1..MaxOpens, sections \in UNION {GatewaySections(d) : d \in DocIds} :
           DrawerSectionsResolve(c, sections)
    \/ \E c \in 1..MaxOpens, message \in ErrorMessages : DrawerSectionsFail(c, message)
    \/ CloseDocumentDrawer

SpecExplorerCache == Init /\ [][NextExplorerCache]_vars

-----------------------------------------------------------------------------
(* Properties of the Document Cache and the Document Drawer *)

\* a request of a pass, an enrichment fetch or a metadata fetch of the drawer
\* fails in this step
FetchFailsInStep ==
    \/ \E p \in 1..Len(passes) : passes[p].pc = "search" /\ passes'[p].pc = "failed"
    \/ \E p \in 1..Len(passes) :
           /\ passes[p].pc = "enrich"
           /\ \E i \in 1..Len(passes[p].fetched) :
                  /\ passes[p].fetched[i] = "pending"
                  /\ i \in 1..Len(passes'[p].fetched)
                  /\ passes'[p].fetched[i] = "fail"
    \/ \E c \in 1..Len(drawerCalls) :
           drawerCalls[c].meta = "pending" /\ drawerCalls'[c].meta = "fail"

\* C15: every entry of the Document Cache is stored under a non-empty key
\* that is the doc_id of its value, and a step in which a search, an
\* enrichment fetch or a metadata fetch of the drawer fails leaves every
\* existing entry in place with its value.
CacheEntriesStayWellFormed ==
    /\ [](\A k \in DOMAIN documentCache : k # "" /\ documentCache[k].doc_id = k)
    /\ [][FetchFailsInStep =>
             \A k \in DOMAIN documentCache :
                 /\ k \in DOMAIN documentCache'
                 /\ documentCache'[k] = documentCache[k]]_vars

\* d1 was cached by the enrichment while the fetch of d3 failed; the drawer
\* opened d3 and its metadata fetch failed as well
FailedFetchesWitness ==
    /\ DOMAIN documentCache = {"d1"}
    /\ documentCache["d1"] = GatewayDocById("d1")
    /\ Len(passes) = 1
    /\ passes[1].missing = <<"d1", "d3">>
    /\ passes[1].fetched = <<"ok", "fail">>
    /\ \E c \in 1..Len(drawerCalls) :
           drawerCalls[c].docId = "d3" /\ drawerCalls[c].meta = "fail"

\* C16: a doc_id present in the Document Cache is present after every step.
CacheIsAdditive ==
    [][\A k \in DOMAIN documentCache : k \in DOMAIN documentCache']_vars

\* two documents were cached by a ticker-only pass; since then the drawer was
\* opened and closed and the selection cleared
CacheOutlivesResultsWitness ==
    /\ DOMAIN documentCache = {"d1", "d2"}
    /\ DOMAIN selectedCompanies = {}
    /\ documentResults = <<>>
    /\ activeDocId = Null
    /\ drawerCalls # <<>>
    /\ \A c \in 1..Len(drawerCalls) : drawerCalls[c] = Returned

drawerView == <<activeDocMeta, activeSections, drawerError, drawerLoading>>

\* C17: while the drawer is closed, the resolution of a fetch of an earlier
\* openDocumentDrawer call leaves activeDocId null and activeDocMeta,
\* activeSections, drawerError and drawerLoading as closeDocumentDrawer left
\* them.
ClosedDrawerStaysCleared ==
    [][(/\ activeDocId = Null
        /\ \E c \in 1..Len(drawerCalls) : drawerCalls'[c] # drawerCalls[c])
       => /\ activeDocId' = Null
          /\ activeDocMeta' = Null
          /\ activeSections' = Null
          /\ drawerError' = NoError
          /\ drawerLoading' = FALSE]_vars

\* C18: while the drawer shows a document, the resolution of a fetch of a
\* call that opened another document changes none of activeDocMeta,
\* activeSections, drawerError and drawerLoading.
DrawerLatestRequestWins ==
    [][\A c \in 1..Len(drawerCalls) :
          (/\ drawerCalls'[c] # drawerCalls[c]
           /\ activeDocId # Null
           /\ activeDocId[1] # drawerCalls[c].docId)
          => UNCHANGED drawerView]_vars

\* C19: for a drawer opened once on an uncached document: when the metadata
\* fetch settles, the sections fetch is issued; when the metadata fetch failed
\* and the sections fetch succeeds, the sections are stored and the drawer
\* shows them; when the metadata fetch succeeded and the sections fetch fails,
\* the metadata stays stored; in both cases drawerError holds the failure.
DrawerFetchesAreIndependent ==
    [][(/\ Len(drawerCalls) = 1
        /\ activeDocId # Null
        /\ drawerCalls'[1] # drawerCalls[1])
       => /\ drawerCalls[1].pc = "meta" => drawerCalls'[1].pc = "sections"
          /\ (/\ drawerCalls[1].pc = "sections"
              /\ drawerCalls[1].meta = "fail"
              /\ activeSections' # Null)
             => /\ drawerError' \in ErrorMessages
                /\ DrawerBody' = IF Len(activeSections'[1]) > 0
                                 THEN "sections" ELSE "no sections"
          /\ (/\ drawerCalls[1].pc = "sections"
              /\ drawerCalls[1].meta = "ok"
              /\ activeSections' = Null)
             => /\ drawerError' \in ErrorMessages
                /\ activeDocMeta' = Some(GatewayDocById(drawerCalls[1].docId))]_vars

-----------------------------------------------------------------------------
(* Requests of the Company Filter *)

\* filter texts that exercise the ticker pattern: a lower-case ticker with a
\* dot and a digit, a text of seven letters, and a padded text with a dash
RequestTexts ==
    FilterTexts \cup {<<"b", ".", "1">>,
                      <<"A", "p", "p", "l", "e", "I", "n">>,
                      <<" ", "x", "-", "Y">>}

\* the company filter of TenKFileExplorer with these texts; the gateway
\* answers every request with an empty list or an error
NextFilterRequests ==
    \/ \E text \in RequestTexts : SetCompanySearch(text)
    \/ \E p \in 1..MaxFilterPasses, i \in 1..2 : CompanySearchResolves(p, i, <<>>)
    \/ \E p \in 1..MaxFilterPasses, i \in 1..2 : CompanySearchFails(p, i)

SpecFilterRequests == Init /\ [][NextFilterRequests]_vars

\* the same for the company filter of TakeHomeLayout
NextLayoutRequests ==
    \/ \E text \in RequestTexts : LayoutSetCompanySearch(text)
    \/ \E p \in 1..MaxFilterPasses : LayoutTimerFires(p)
    \/ \E p \in 1..MaxFilterPasses, i \in 1..2 : LayoutSearchResolves(p, i, <<>>)
    \/ \E p \in 1..MaxFilterPasses, i \in 1..2, message \in ErrorMessages :
           LayoutSearchFails(p, i, message)

SpecLayoutRequests == Init /\ [][NextLayoutRequests]_vars

(* Properties of the requests of the Company Filter *)

\* letters, digits, '.' and '-'
TickerAlphabet ==
    ToSet(LowerLetters) \cup ToSet(UpperLetters) \cup Digits \cup {".", "-"}

\* the upper-case form of a character
UpperOf(ch) ==
    IF \E i \in 1..26 : LowerLetters[i] = ch
    THEN UpperLetters[CHOOSE i \in 1..26 : LowerLetters[i] = ch]
    ELSE ch

\* C20: a non-empty trimmed filter text has a pass, and the requests a pass
\* has issued are a name search for its text, plus a ticker search for the
\* upper-cased text exactly when the text has 1 to 6 characters, all of them
\* letters, digits, '.' or '-'.
FilterIssuesNameAndTickerSearch ==
    /\ Trim(companySearch) # <<>> =>
           /\ filterPasses # <<>>
           /\ filterPasses[Len(filterPasses)].term = Trim(companySearch)
    /\ \A p \in 1..Len(filterPasses) :
           filterPasses[p].pc \notin {"timer", "cleared"} =>
               LET term == filterPasses[p].term
                   requests == filterPasses[p].requests
               IN  /\ term # <<>>
                   /\ Len(requests) \in {1, 2}
                   /\ DOMAIN requests[1] \cap {"name", "ticker"} = {"name"}
                   /\ requests[1].name = term
                   /\ Len(requests) = 2 <=>
                          (Len(term) \in 1..6 /\ ToSet(term) \subseteq TickerAlphabet)
                   /\ Len(requests) = 2 =>
                          /\ DOMAIN requests[2] \cap {"name", "ticker"} = {"ticker"}
                          /\ requests[2].ticker = [i \in 1..Len(term) |-> UpperOf(term[i])]

\* "b.1" has issued a name search and a ticker search for "B.1"; the text with
\* a blank has issued a name search only
TickerAndNameWitness ==
    /\ Len(filterPasses) = 2
    /\ filterPasses[1].term = <<"b", ".", "1">>
    /\ Len(filterPasses[1].requests) = 2
    /\ filterPasses[1].requests[1].name = <<"b", ".", "1">>
    /\ filterPasses[1].requests[2].ticker = <<"B", ".", "1">>
    /\ filterPasses[2].term = <<"a", " ", "b">>
    /\ Len(filterPasses[2].requests) = 1
    /\ filterPasses[2].requests[1].name = <<"a", " ", "b">>

-----------------------------------------------------------------------------
(* Merge of the Company Filter responses *)

\* a second row of the company table for cik 1: the same company listed under
\* another ticker
AppleClassB == [cik |-> 1, name |-> <<"A", "p">>, ticker |-> "AAPB"]

\* responses of api.searchCompanies in which a cik occurs with different rows
MergeLists == {<<>>, <<Microsoft, Apple>>, <<AppleClassB>>, <<PrivateCo, AppleClassB>>}

\* the company filter of TenKFileExplorer with these responses
NextFilterMerge ==
    \/ \E text \in {<<>>, <<"A">>, <<"a", " ", "b">>} : SetCompanySearch(text)
    \/ \E p \in 1..MaxFilterPasses, i \in 1..2, list \in MergeLists :
           CompanySearchResolves(p, i, list)
    \/ \E p \in 1..MaxFilterPasses, i \in 1..2 : CompanySearchFails(p, i)

SpecFilterMerge == Init /\ [][NextFilterMerge]_vars

\* the first entry of a list that carries the cik c
FirstWithCik(list, c) ==
    list[CHOOSE k \in 1..Len(list) :
             /\ list[k].cik = c
             /\ \A m \in 1..(k - 1) : list[m].cik # c]

\* the result holds exactly one company for every cik of the responses
OnePerCik(out, all) ==
    /\ {out[i].cik : i \in 1..Len(out)} = {all[i].cik : i \in 1..Len(all)}
    /\ \A i, j \in 1..Len(out) : out[i].cik = out[j].cik => i = j

\* the result is in ascending order of the lower-cased names
OrderedByName(out) ==
    \A i, j \in 1..Len(out) :
        i < j => ~ComesBefore(ToLowerCase(out[j].name), ToLowerCase(out[i].name))

\* the pass p completes in this step and its .then handler runs
FilterPassCompletes(p) ==
    /\ filterPasses[p].pc = "requests"
    /\ filterPasses'[p].pc = "done"

\* C21: the result a pass writes holds exactly one company per cik of its
\* responses, for a cik that occurs more than once the entry of the earlier
\* response, and is ordered by name ascending without regard to case.
MergeKeepsEarlierEntry ==
    [][\A p \in 1..Len(filterPasses) :
          FilterPassCompletes(p) =>
              LET all == Flat(filterPasses'[p].responses)
                  out == searchResults'[1].companies
              IN  /\ OnePerCik(out, all)
                  /\ \A i \in 1..Len(out) : out[i] = FirstWithCik(all, out[i].cik)
                  /\ OrderedByName(out)]_vars

\* what the code does hold: one company per cik, ordered by name
MergeDedupesAndSorts ==
    [][\A p \in 1..Len(filterPasses) :
          FilterPassCompletes(p) =>
              LET all == Flat(filterPasses'[p].responses)
                  out == searchResults'[1].companies
              IN  OnePerCik(out, all) /\ OrderedByName(out)]_vars

-----------------------------------------------------------------------------
(* Company Filter beside the Search Orchestrator *)

\* the company filter of TenKFileExplorer while companies are selected and
\* their filings are requested
NextSidebar ==
    \/ HandleCompanyToggle(Apple) /\ Len(passes') <= MaxExplorerPasses
    \/ \E p \in 1..MaxPasses, docs \in ExplorerDocumentLists : DocumentsResolve(p, docs)
    \/ \E p \in 1..MaxPasses, message \in ErrorMessages : RequestFails(p, message)
    \/ \E text \in {<<>>, <<"A">>} : SetCompanySearch(text)
    \/ \E p \in 1..MaxFilterPasses, i \in 1..2, list \in {<<>>, <<Microsoft, Apple>>} :
           CompanySearchResolves(p, i, list)
    \/ \E p \in 1..MaxFilterPasses, i \in 1..2 : CompanySearchFails(p, i)

SpecSidebar == Init /\ [][NextSidebar]_vars

\* a request of the pass p fails in this step: its promise chain ends in the
\* .catch handler
FilterPassFails(p) ==
    /\ filterPasses[p].pc = "requests"
    /\ filterPasses'[p].pc = "failed"

\* C22: when a request of a filter pass fails, the failure is handled: the
\* filter result becomes the empty result set (not the undefined sentinel),
\* no error is recorded, and the state of the Search Orchestrator (loading,
\* error, results, passes) and the Selection are left as they were.
FilterFailureIsSwallowed ==
    [][\A p \in 1..Len(filterPasses) :
          FilterPassFails(p) =>
              /\ searchResults' = FilterResult(filterPasses[p].term, <<>>)
              /\ searchResults' # Null
              /\ UNCHANGED <<searchError, searchLoading, companySearch>>
              /\ UNCHANGED <<resultsLoading, resultsError, searchResponse,
                             documentResults, passes>>
              /\ UNCHANGED <<selectedCompanies, query, searchMode>>]_vars

\* Apple is selected and its filings are shown; the first pass for "A" found
\* two companies, the second failed and left the empty result set
FilterFailureWitness ==
    /\ Len(filterPasses) = 2
    /\ filterPasses[1].pc = "done"
    /\ filterPasses[2].pc = "failed"
    /\ searchResults = FilterResult(<<"A">>, <<>>)
    /\ 1 \in DOMAIN selectedCompanies
    /\ documentResults # <<>>
    /\ resultsError = NoError

-----------------------------------------------------------------------------
(* Roster view *)

\* the roster state (companies, companiesLoading, companiesError) of a render:
\* before fetchCompanies was called, while it is pending, after it failed,
\* after the gateway returned no company, and after the roster was loaded
RosterStates == {
    [companies |-> <<>>, companiesLoading |-> FALSE, companiesError |-> NoError],
    [companies |-> <<>>, companiesLoading |-> TRUE, companiesError |-> NoError],
    [companies |-> <<>>, companiesLoading |-> FALSE,
     companiesError |-> "Internal Server Error"],
    [companies |-> sortCompanies(<<Microsoft, Apple, PrivateCo>>),
     companiesLoading |-> FALSE, companiesError |-> NoError] }

\* `searchResults ?? []`
ResultsOrEmpty == IF searchResults = Null THEN <<>> ELSE searchResults[1].companies

\* the branch renderCompanyList renders and the rows of its list
RosterView(termActive, loading, error, dataset) ==
    IF loading THEN [branch |-> "loading", rows |-> <<>>]
    ELSE IF error # NoError THEN [branch |-> "error", rows |-> <<>>]
    ELSE IF termActive /\ dataset = <<>> THEN [branch |-> "no companies found", rows |-> <<>>]
    ELSE IF ~termActive /\ dataset = <<>> THEN [branch |-> "no companies loaded", rows |-> <<>>]
    ELSE [branch |-> "list", rows |-> dataset]

\* a roster view that shows the filter result whenever there is one
renderCompanyListByResults(roster) ==
    LET termActive == searchResults # Null
    IN  RosterView(termActive,
                   IF termActive THEN FALSE ELSE roster.companiesLoading,
                   IF termActive THEN NoError ELSE roster.companiesError,
                   IF termActive THEN ResultsOrEmpty ELSE roster.companies)

renderCompanyList(roster) ==
    LET termActive == Trim(companySearch) # <<>>
    IN  RosterView(termActive,
                   IF termActive THEN FALSE ELSE roster.companiesLoading,
                   IF termActive THEN NoError ELSE roster.companiesError,
                   IF termActive THEN ResultsOrEmpty ELSE roster.companies)

\* the view of the unfiltered roster
UnfilteredRosterView(roster) ==
    RosterView(FALSE, roster.companiesLoading, roster.companiesError, roster.companies)

\* C23: whenever the trimmed filter text is empty the roster view is the view
\* of the unfiltered roster (the full company list once it is loaded),
\* whatever the filter passes have written or have pending; and a change of
\* the text to an empty one sets searchResults to undefined, which is not an
\* empty result set, and starts no filter pass.
EmptyFilterShowsFullRoster ==
    /\ [](Trim(companySearch) = <<>> =>
            \A roster \in RosterStates :
                /\ renderCompanyList(roster) = UnfilteredRosterView(roster)
                /\ (roster.companies # <<>> =>
                        renderCompanyList(roster) =
                            [branch |-> "list", rows |-> roster.companies]))
    /\ [][(companySearch' # companySearch /\ Trim(companySearch') = <<>>) =>
            /\ searchResults' = Null
            /\ \A term \in FilterTexts : searchResults' # FilterResult(term, <<>>)
            /\ filterPasses' = filterPasses]_vars

\* the text "A" was cleared while its requests were pending; they resolved
\* afterwards and wrote a result although no filter is active
LateResultUnderEmptyFilterWitness ==
    /\ companySearch = <<>>
    /\ searchResults # Null
    /\ searchResults[1].companies # <<>>
    /\ \E p \in 1..Len(filterPasses) : filterPasses[p].pc = "requests"

-----------------------------------------------------------------------------
(* Selection with a repeated ticker *)

\* a row of the company table with another cik and the ticker of Apple
AppleTrust == [cik |-> 4, name |-> <<"A", "t">>, ticker |-> "AAPL"]

\* the rows the user can toggle: two rows share the ticker AAPL, two the cik 1
SelectionRows == {Apple, AppleClassB, AppleTrust, PrivateCo}

\* the selection handlers and the ticker-only passes they start
NextSelection ==
    \/ \E company \in SelectionRows : HandleCompanyToggle(company)
    \/ ClearSelectedCompanies
    \/ \E p \in 1..MaxPasses, docs \in ExplorerDocumentLists : DocumentsResolve(p, docs)
    \/ \E p \in 1..MaxPasses, message \in ErrorMessages : RequestFails(p, message)

SpecSelection == Init /\ [][NextSelection]_vars

\* C24: in every selection state the derived ticker list holds no empty
\* ticker and no ticker twice.
TickerListHasNoDuplicates ==
    LET tickers == SelectedTickers(selectedCompanies)
    IN  /\ \A i \in 1..Len(tickers) : tickers[i] # ""
        /\ \A i, j \in 1..Len(tickers) : tickers[i] = tickers[j] => i = j

\* what the code does hold: no empty ticker in the derived list
TickerListHasNoEmptyTicker ==
    \A i \in 1..Len(SelectedTickers(selectedCompanies)) :
        SelectedTickers(selectedCompanies)[i] # ""

-----------------------------------------------------------------------------
(* Error state of the Search Orchestrator *)

\* C25: in every state in which resultsError is set, searchResponse is null,
\* documentResults is empty and the results pane shows the error; the pass
\* that failed is still the current one and the inputs are not idle, so the
\* error stays until a later pass starts or the inputs are cleared to idle.
ErrorBlocksResultDisplay ==
    resultsError # NoError =>
        /\ searchResponse = Null
        /\ documentResults = <<>>
        /\ ~resultsLoading
        /\ renderResultsPane = "error"
        /\ CurrentPass # 0
        /\ passes[CurrentPass].pc = "failed"
        /\ ~IsIdleInput(query, selectedCompanies)

\* the ticker-only pass of a selection failed while the documents of an
\* earlier selection were shown
DocumentPassFailureWitness ==
    /\ CurrentPass = 2
    /\ passes[2].pc = "failed"
    /\ passes[2].endpoint = "searchDocuments"
    /\ passes[2].replaced
    /\ resultsError \in ErrorMessages
    /\ renderResultsPane = "error"

-----------------------------------------------------------------------------
(* Fetch Adapter: SECApiClient.searchCompanies, buildQueryString, fetchAPI *)

\* the keys of CompanySearchParams, as the characters of their names
ParamKeys ==
    [name |-> <<"n", "a", "m", "e">>,
     ticker |-> <<"t", "i", "c", "k", "e", "r">>,
     limit |-> <<"l", "i", "m", "i", "t">>,
     has_documents_only |-> <<"h", "a", "s", "_", "d", "o", "c", "u", "m", "e", "n", "t",
                              "s", "_", "o", "n", "l", "y">>]

\* Object.entries of the CompanySearchParams handed to searchCompanies; a
\* value carries its type `t` and, unless undefined or null, its value `v`
ParamRecords ==
    {<<[key |-> ParamKeys.name, value |-> name],
       [key |-> ParamKeys.ticker, value |-> ticker],
       [key |-> ParamKeys.limit, value |-> limit],
       [key |-> ParamKeys.has_documents_only, value |-> only]>> :
        name \in {[t |-> "undefined"]}
                     \cup {[t |-> "string", v |-> chars] :
                              chars \in {<<>>, <<"A", " ", "b">>, <<"R", "&", "D">>}},
        ticker \in {[t |-> "undefined"], [t |-> "null"],
                    [t |-> "string", v |-> <<"A", "A", "P", "L">>]},
        limit \in {[t |-> "undefined"]}
                      \cup {[t |-> "number", v |-> n] : n \in {0, COMPANY_SEARCH_LIMIT}},
        only \in {[t |-> "undefined"]}
                     \cup {[t |-> "boolean", v |-> b] : b \in BOOLEAN}}

\* Number.prototype.toString of a natural number
RECURSIVE NumberChars(_)
NumberChars(n) ==
    LET digits == <<"0", "1", "2", "3", "4", "5", "6", "7", "8", "9">>
    IN  IF n < 10 THEN <<digits[n + 1]>>
        ELSE NumberChars(n \div 10) \o <<digits[(n % 10) + 1]>>

\* value.toString()
ToStringChars(value) ==
    CASE value.t = "string" -> value.v
      [] value.t = "number" -> NumberChars(value.v)
      [] value.t = "boolean" ->
             IF value.v THEN <<"t", "r", "u", "e">> ELSE <<"f", "a", "l", "s", "e">>

\* the application/x-www-form-urlencoded serialisation of a string
RECURSIVE FormEncode(_)
FormEncode(chars) ==
    IF chars = <<>> THEN <<>>
    ELSE (CASE Head(chars) = " " -> <<"+">>
            [] Head(chars) = "&" -> <<"%", "2", "6">>
            [] Head(chars) = "=" -> <<"%", "3", "D">>
            [] OTHER -> <<Head(chars)>>) \o FormEncode(Tail(chars))

\* a test that keeps only truthy values
IsSentIfTruthy(value) ==
    /\ value.t \notin {"undefined", "null"}
    /\ ~(value.t = "string" /\ value.v = <<>>)
    /\ ~(value.t = "boolean" /\ value.v = FALSE)
    /\ ~(value.t = "number" /\ value.v = 0)

\* value !== undefined && value !== null && value !== ''
IsSent(value) ==
    /\ value.t # "undefined"
    /\ value.t # "null"
    /\ ~(value.t = "string" /\ value.v = <<>>)

\* URLSearchParams.toString() of the entries appended so far
RECURSIVE SearchParamsToString(_)
SearchParamsToString(entries) ==
    IF entries = <<>> THEN <<>>
    ELSE LET pair == FormEncode(Head(entries).key) \o <<"=">>
                         \o FormEncode(ToStringChars(Head(entries).value))
         IN  IF Len(entries) = 1 THEN pair
             ELSE pair \o <<"&">> \o SearchParamsToString(Tail(entries))

buildQueryString(params) ==
    LET queryString == SearchParamsToString(SelectSeq(params, LAMBDA entry : IsSent(entry.value)))
    IN  IF queryString # <<>> THEN <<"?">> \o queryString ELSE <<>>

\* the characters of a string as one string
RECURSIVE StringOf(_)
StringOf(chars) == IF chars = <<>> THEN "" ELSE Head(chars) \o StringOf(Tail(chars))

\* the responses of fetch: ok, status and statusText (empty over HTTP/2)
Responses == {
    [ok |-> TRUE, status |-> 200, statusText |-> "OK"],
    [ok |-> FALSE, status |-> 404, statusText |-> "Not Found"],
    [ok |-> FALSE, status |-> 500, statusText |-> "Internal Server Error"],
    [ok |-> FALSE, status |-> 503, statusText |-> ""] }

\* the values response.json() resolves with: arrays of companies, and
\* objects without detail, with an empty detail and with a detail
JsonBodies ==
    {[json |-> "array", detail |-> Null, items |-> items] : items \in {<<>>, <<Apple>>}}
    \cup {[json |-> "object", detail |-> detail, items |-> <<>>] :
              detail \in {Null, Some(""), Some("Company not found")}}

\* what a rejected promise carries: an Error (the TypeError of fetch, the
\* SyntaxError of response.json()) or a value that is not an Error
Rejections == {
    [isError |-> TRUE, message |-> "Failed to fetch"],
    [isError |-> FALSE, message |-> ""] }

SyntaxError == [isError |-> TRUE, message |-> "Unexpected token < in JSON"]

ErrorOf(message) == Some([kind |-> "Error", message |-> message])

\* a message that ignores the body of the response
ErrorMessageFromStatusOnly(detail, response) ==
    "HTTP " \o StringOf(NumberChars(response.status)) \o ": " \o response.statusText

\* errorData.detail || `HTTP ${response.status}: ${response.statusText}`
ErrorMessageOf(detail, response) ==
    IF detail # Null /\ detail[1] # ""
    THEN detail[1]
    ELSE "HTTP " \o StringOf(NumberChars(response.status)) \o ": " \o response.statusText

\* the catch block of fetchAPI
Rethrown(thrown) ==
    IF thrown.isError THEN ErrorOf(thrown.message)
    ELSE ErrorOf("An unexpected error occurred")

\* api.searchCompanies(params), up to the await of fetch
SearchCompanies(params) ==
    /\ apiCall = Null
    /\ apiCall' = Some([pc          |-> "fetch",
                        params      |-> params,
                        queryString |-> buildQueryString(params),
                        response    |-> Null,
                        body        |-> Null,
                        thrown      |-> Null,
                        outcome     |-> Null])
    /\ UNCHANGED <<orchVars, filterVars, drawerVars, putAllCall>>

\* fetch resolves with a response; fetchAPI awaits response.json()
FetchResolves(response) ==
    /\ apiCall # Null
    /\ apiCall[1].pc = "fetch"
    /\ apiCall' = Some([apiCall[1] EXCEPT !.pc = "json", !.response = Some(response)])
    /\ UNCHANGED <<orchVars, filterVars, drawerVars, putAllCall>>

\* fetch rejects: the catch block runs
FetchRejects(thrown) ==
    /\ apiCall # Null
    /\ apiCall[1].pc = "fetch"
    /\ apiCall' = Some([apiCall[1] EXCEPT !.pc = "thrown", !.thrown = Some(thrown),
                                          !.outcome = Rethrown(thrown)])
    /\ UNCHANGED <<orchVars, filterVars, drawerVars, putAllCall>>

\* response.json() resolves: the value is returned, or for a response that is
\* not ok the Error is thrown and passes through the catch block
JsonResolves(body) ==
    /\ apiCall # Null
    /\ apiCall[1].pc = "json"
    /\ LET response == apiCall[1].response[1]
       IN  apiCall' =
             IF response.ok
             THEN Some([apiCall[1] EXCEPT
                          !.pc = "returned", !.body = Some(body),
                          !.outcome = Some([kind |-> "value", value |-> body])])
             ELSE Some([apiCall[1] EXCEPT
                          !.pc = "thrown", !.body = Some(body),
                          !.outcome = Rethrown([isError |-> TRUE,
                                                message |-> ErrorMessageOf(body.detail, response)])])
    /\ UNCHANGED <<orchVars, filterVars, drawerVars, putAllCall>>

\* response.json() rejects: for a response that is not ok `.catch(() => ({}))`
\* yields an object without detail, otherwise the SyntaxError is thrown
JsonRejects ==
    /\ apiCall # Null
    /\ apiCall[1].pc = "json"
    /\ LET response == apiCall[1].response[1]
       IN  apiCall' =
             IF response.ok
             THEN Some([apiCall[1] EXCEPT
                          !.pc = "thrown", !.thrown = Some(SyntaxError),
                          !.outcome = Rethrown(SyntaxError)])
             ELSE Some([apiCall[1] EXCEPT
                          !.pc = "thrown", !.thrown = Some(SyntaxError),
                          !.outcome = Rethrown([isError |-> TRUE,
                                                message |-> ErrorMessageOf(Null, response)])])
    /\ UNCHANGED <<orchVars, filterVars, drawerVars, putAllCall>>

NextApiClient ==
    \/ \E params \in ParamRecords : SearchCompanies(params)
    \/ \E response \in Responses : FetchResolves(response)
    \/ \E thrown \in Rejections : FetchRejects(thrown)
    \/ \E body \in JsonBodies : JsonResolves(body)
    \/ JsonRejects

SpecApiClient == Init /\ [][NextApiClient]_vars

(* Properties of the Fetch Adapter *)

\* the generic message of each response that is not ok
GenericMessages ==
    [status \in {404, 500, 503} |->
        CASE status = 404 -> "HTTP 404: Not Found"
          [] status = 500 -> "HTTP 500: Internal Server Error"
          [] status = 503 -> "HTTP 503: "]

\* the call has failed: fetch or response.json() rejected, or the response
\* is not ok
CallFailed(call) ==
    \/ call.thrown # Null
    \/ call.response # Null /\ ~call.response[1].ok

Finished(call) == call.pc \in {"returned", "thrown"}

\* C26: a finished call that failed has thrown one Error with a message and
\* returned no value; for a response that is not ok the message is the detail
\* of the body when the body is JSON with a non-empty detail, otherwise
\* "HTTP <status>: <statusText>"; a rejected fetch ends in an Error as well;
\* and a call that returned a value did not fail.
FailuresEndInOneError ==
    (apiCall # Null /\ Finished(apiCall[1])) =>
        LET call == apiCall[1]
            outcome == call.outcome[1]
        IN  /\ call.outcome # Null
            /\ CallFailed(call) =>
                 /\ call.pc = "thrown"
                 /\ outcome.kind = "Error"
                 /\ outcome.message # ""
            /\ (call.response # Null /\ ~call.response[1].ok) =>
                 outcome.message =
                     IF call.body # Null /\ call.body[1].detail \notin {Null, Some("")}
                     THEN call.body[1].detail[1]
                     ELSE GenericMessages[call.response[1].status]
            /\ (call.thrown # Null /\ call.response = Null) =>
                 outcome.message \in {"Failed to fetch", "An unexpected error occurred"}
            /\ call.pc = "returned" =>
                 /\ ~CallFailed(call)
                 /\ outcome = [kind |-> "value", value |-> call.body[1]]

\* the gateway answered 404 with {"detail": "Company not found"}
ServerDetailWitness ==
    /\ apiCall # Null
    /\ apiCall[1].pc = "thrown"
    /\ apiCall[1].response = Some([ok |-> FALSE, status |-> 404, statusText |-> "Not Found"])
    /\ apiCall[1].body # Null
    /\ apiCall[1].body[1].detail = Some("Company not found")
    /\ apiCall[1].outcome = ErrorOf("Company not found")

\* the segments of a string between the occurrences of a separator
RECURSIVE SplitOn(_, _)
SplitOn(chars, sep) ==
    IF \E i \in 1..Len(chars) : chars[i] = sep
    THEN LET i == CHOOSE k \in 1..Len(chars) :
                      chars[k] = sep /\ \A m \in 1..(k - 1) : chars[m] # sep
         IN  <<SubSeq(chars, 1, i - 1)>> \o SplitOn(SubSeq(chars, i + 1, Len(chars)), sep)
    ELSE <<chars>>

\* the keys a receiver reads from a query string, one for each pair
KeysOfQueryString(queryString) ==
    IF queryString = <<>> THEN <<>>
    ELSE LET pairs == SplitOn(Tail(queryString), "&")
         IN  [i \in 1..Len(pairs) |-> SplitOn(pairs[i], "=")[1]]

\* the keys of a parameter record whose value is not undefined, null or ""
QualifyingKeys(params) ==
    {params[i].key : i \in {k \in 1..Len(params) :
        /\ params[k].value.t \in {"string", "number", "boolean"}
        /\ params[k].value.t = "string" => Len(params[k].value.v) > 0}}

\* C27: the query string built for a parameter record holds a key exactly
\* when its value is not undefined, null or the empty string (false and 0 are
\* kept), each such key once; it is the empty string when no key qualifies
\* and starts with "?" otherwise.
QueryStringHoldsSentKeysOnly ==
    apiCall # Null =>
        LET params == apiCall[1].params
            queryString == apiCall[1].queryString
            keys == KeysOfQueryString(queryString)
        IN  /\ ToSet(keys) = QualifyingKeys(params)
            /\ Len(keys) = Cardinality(QualifyingKeys(params))
            /\ (QualifyingKeys(params) = {}) <=> (queryString = <<>>)
            /\ queryString # <<>> => Head(queryString) = "?"

\* name is "", ticker is null, limit is 0 and has_documents_only is false:
\* the query string is "?limit=0&has_documents_only=false"
FalseAndZeroKeptWitness ==
    /\ apiCall # Null
    /\ apiCall[1].params[1].value = [t |-> "string", v |-> <<>>]
    /\ apiCall[1].params[2].value = [t |-> "null"]
    /\ apiCall[1].params[3].value = [t |-> "number", v |-> 0]
    /\ apiCall[1].params[4].value = [t |-> "boolean", v |-> FALSE]
    /\ apiCall[1].queryString =
           <<"?">> \o ParamKeys.limit \o <<"=", "0", "&">> \o ParamKeys.has_documents_only
               \o <<"=", "f", "a", "l", "s", "e">>

-----------------------------------------------------------------------------
(* Loading state of the Search Orchestrator *)

\* C28: there is no timeout: as long as the request chain of the current pass
\* (its search and its enrichment fetches) is unresolved, resultsLoading is
\* true; resultsLoading is false only when the chain of the current pass has
\* resolved or failed, or when the inputs are idle and no pass is current.
LoadingUntilRequestSettles ==
    /\ (CurrentPass # 0 /\ passes[CurrentPass].pc \in {"search", "enrich"})
           => resultsLoading
    /\ ~resultsLoading =>
           \/ CurrentPass = 0 /\ IsIdleInput(query, selectedCompanies)
           \/ CurrentPass # 0 /\ passes[CurrentPass].pc \in {"done", "failed"}

\* the first pass resolved after it was superseded; the second pass has its
\* search response and waits for an enrichment fetch: still loading
StillLoadingWitness ==
    /\ Len(passes) = 2
    /\ passes[1].pc = "discarded"
    /\ CurrentPass = 2
    /\ passes[2].pc = "enrich"
    /\ searchResponse # Null
    /\ resultsLoading

-----------------------------------------------------------------------------
(* Recovery of the Search Orchestrator after a failure *)

\* the orchestrator with a gateway that fails the request of the first pass
\* and answers the requests of the later ones
NextRecovery ==
    \/ \E q \in ExplorerQueries : SetQuery(q)
    \/ \E m \in SearchModes : SetSearchMode(m)
    \/ \E company \in {Apple, PrivateCo} : HandleCompanyToggle(company)
    \/ \E message \in ErrorMessages : RequestFails(1, message)
    \/ \E p \in 2..MaxPasses, ids \in ExplorerChunkLists : SearchResolves(p, ids)
    \/ \E p \in 2..MaxPasses, docs \in ExplorerDocumentLists : DocumentsResolve(p, docs)
    \/ \E p \in 2..MaxPasses, i \in 1..MaxEnrich, outcome \in {"ok", "fail"} :
           EnrichmentFetchResolves(p, i, outcome)

SpecRecovery == Init /\ [][NextRecovery]_vars

\* the query, the mode or the selected tickers change in this step
InputsChange ==
    \/ query' # query
    \/ searchMode' # searchMode
    \/ SelectedTickersKey(selectedCompanies') # SelectedTickersKey(selectedCompanies)

\* a new pass starts in this step; it is the current one and the error is
\* cleared
NewPassClearsError ==
    /\ Len(passes') = Len(passes) + 1
    /\ CurrentPass' = Len(passes')
    /\ passes'[Len(passes')].pc = "search"
    /\ resultsLoading'
    /\ resultsError' = NoError

\* the request of the current pass p resolves in this step
CurrentRequestSucceeds(p) ==
    /\ p = CurrentPass
    /\ passes[p].pc = "search"
    /\ passes'[p].pc \in {"enrich", "done"}

\* the response of pass p is the visible result
ResultsOfPassVisible(p) ==
    /\ resultsError' = NoError
    /\ IF passes[p].endpoint \in ChunkEndpoints
       THEN searchResponse' # Null /\ searchResponse'[1].pass = p
       ELSE /\ searchResponse' = Null
            /\ ~resultsLoading'
            /\ \E docs \in ExplorerDocumentLists :
                   /\ Len(documentResults') = Len(docs)
                   /\ ToSet(documentResults') = ToSet(docs)

\* once the current pass is done the pane shows its results and no error
DonePassIsShown ==
    (CurrentPass # 0 /\ passes[CurrentPass].pc = "done") =>
        /\ resultsError = NoError
        /\ renderResultsPane \in {"chunks", "no matches", "documents", "no filings"}

\* C29 as stated: from a state with resultsError set, every change of the
\* query, the selected tickers or the mode starts a new pass that clears the
\* error; and when the request of the current pass succeeds its results
\* become the visible ones.
EveryChangeStartsNewPass ==
    /\ [][(resultsError # NoError /\ InputsChange) => NewPassClearsError]_vars
    /\ [][\A p \in 1..Len(passes) :
            CurrentRequestSucceeds(p) => ResultsOfPassVisible(p)]_vars
    /\ []DonePassIsShown

\* C29, amended: from a state with resultsError set, a change of the query,
\* the selected tickers or the mode clears the error: it starts a new pass
\* when the new inputs are not idle, and resets the orchestrator to the idle
\* state (no pass, no results, not loading) when they are; and when the
\* request of the current pass succeeds its results become the visible ones.
EveryChangeClearsError ==
    /\ [][(resultsError # NoError /\ InputsChange) =>
            IF IsIdleInput(query', selectedCompanies')
            THEN /\ resultsError' = NoError
                 /\ ~resultsLoading'
                 /\ searchResponse' = Null
                 /\ documentResults' = <<>>
                 /\ CurrentPass' = 0
                 /\ Len(passes') = Len(passes)
            ELSE NewPassClearsError]_vars
    /\ [][\A p \in 1..Len(passes) :
            CurrentRequestSucceeds(p) => ResultsOfPassVisible(p)]_vars
    /\ []DonePassIsShown

\* the first pass failed; a change of the inputs started the second pass,
\* whose request succeeded: the chunks of its response are shown
RecoveredWitness ==
    /\ Len(passes) = 2
    /\ passes[1].pc = "superseded"
    /\ CurrentPass = 2
    /\ passes[2].pc = "done"
    /\ resultsError = NoError
    /\ renderResultsPane = "chunks"

-----------------------------------------------------------------------------
(* Debounce of the Company Filter of TakeHomeLayout *)

\* the requests of pass p are dispatched in this step
RequestsDispatched(p) ==
    /\ filterPasses[p].requests = <<>>
    /\ filterPasses'[p].requests # <<>>

\* C30: a pass has dispatched no request while it waits for its timer or
\* after its timer was cleared; requests are dispatched only in the step in
\* which the timer of the pass fires, and then the pass is the one of the
\* current filter text; a change of the text clears the timer of a waiting
\* pass, and a pass whose timer was cleared never does anything again; so at
\* most one pass is waiting, the latest.
DebounceDispatchesLastTextOnly ==
    /\ [](\A p \in 1..Len(filterPasses) :
            /\ filterPasses[p].pc \in {"timer", "cleared"}
                   => filterPasses[p].requests = <<>>
            /\ filterPasses[p].pc = "timer"
                   => /\ p = Len(filterPasses)
                      /\ ~filterPasses[p].cancelled
                      /\ filterPasses[p].term = Trim(companySearch))
    /\ [][\A p \in 1..Len(filterPasses) :
            /\ RequestsDispatched(p) =>
                   /\ filterPasses[p].pc = "timer"
                   /\ filterPasses'[p].pc = "requests"
                   /\ filterPasses[p].term = Trim(companySearch)
                   /\ companySearch' = companySearch
            /\ (filterPasses[p].pc = "timer" /\ companySearch' # companySearch)
                   => filterPasses'[p].pc = "cleared"
            /\ filterPasses[p].pc = "cleared"
                   => filterPasses'[p] = filterPasses[p]]_vars

\* a burst of two texts: the timer of the first was cleared, the timer of the
\* second fired and its requests are in flight
BurstWitness ==
    /\ Len(filterPasses) = 2
    /\ filterPasses[1].pc = "cleared"
    /\ filterPasses[1].requests = <<>>
    /\ filterPasses[2].pc = "requests"
    /\ Len(filterPasses[2].requests) = 2
    /\ filterPasses[2].term = Trim(companySearch)


\* ---------------------------------------------------------------------
\* Selection algebra (handleCompanyToggle, clearSelectedCompanies)

\* next is sel with the entry of company's cik flipped, all else untouched
IsToggleOf(sel, next, company) ==
    IF company.cik \in DOMAIN sel
    THEN /\ DOMAIN next = DOMAIN sel \ {company.cik}
         /\ \A k \in DOMAIN next : next[k] = sel[k]
    ELSE /\ DOMAIN next = DOMAIN sel \cup {company.cik}
         /\ next[company.cik] = company
         /\ \A k \in DOMAIN sel : next[k] = sel[k]

\* a second toggle of the same row gives back the selection
ToggleTwiceRestores(company) ==
    Toggled(Toggled(selectedCompanies, company), company) = selectedCompanies

\* the entry under the row's cik, if any, is that very row
HoldsThisRow(company) ==
    \/ company.cik \notin DOMAIN selectedCompanies
    \/ selectedCompanies[company.cik] = company

\* every step that changes the selection is one toggle or a clear
SelectionStep ==
    selectedCompanies' # selectedCompanies =>
        \/ \E company \in SelectionRows :
               IsToggleOf(selectedCompanies, selectedCompanies', company)
        \/ selectedCompanies' = EmptyMap

\* C31 as stated: a toggle adds exactly the row's cik with that row when the
\* cik is not selected and removes exactly that cik when it is, every other
\* entry stays, a clear yields the empty mapping, and toggling any row twice
\* restores the previous selection.
ToggleTwiceAlwaysRestores ==
    /\ [](\A company \in SelectionRows :
              /\ IsToggleOf(selectedCompanies,
                            Toggled(selectedCompanies, company), company)
              /\ ToggleTwiceRestores(company))
    /\ [][SelectionStep]_vars
    /\ [][ClearSelectedCompanies => selectedCompanies' = EmptyMap]_vars

\* C31 amended: a toggle adds exactly the row's cik with that row when the
\* cik is not selected and removes exactly that cik when it is, every other
\* entry stays, and a clear yields the empty mapping; toggling a row twice
\* restores the previous selection exactly when the entry under its cik, if
\* any, was that same row, and otherwise leaves the toggled row in its place.
ToggleIsInvolutionOnOwnRow ==
    /\ [](\A company \in SelectionRows :
              /\ IsToggleOf(selectedCompanies,
                            Toggled(selectedCompanies, company), company)
              /\ HoldsThisRow(company) <=> ToggleTwiceRestores(company)
              /\ ~HoldsThisRow(company) =>
                     Toggled(Toggled(selectedCompanies, company), company)
                         = [selectedCompanies EXCEPT ![company.cik] = company])
    /\ [][SelectionStep]_vars
    /\ [][ClearSelectedCompanies => selectedCompanies' = EmptyMap]_vars

\* two rows are selected, one of them under a cik another row shares
ToggleOtherRowWitness ==
    /\ DOMAIN selectedCompanies = {1, 3}
    /\ selectedCompanies[1] = AppleClassB
    /\ selectedCompanies[3] = PrivateCo

-----------------------------------------------------------------------------
(* The two request chains of TenKFileExplorer side by side *)

\* the results effect and the company search effect with their requests
NextChains ==
    \/ \E q \in ExplorerQueries : SetQuery(q) /\ Len(passes') <= MaxExplorerPasses
    \/ \E m \in {"fts", "hybrid"} : SetSearchMode(m) /\ Len(passes') <= MaxExplorerPasses
    \/ HandleCompanyToggle(Apple) /\ Len(passes') <= MaxExplorerPasses
    \/ \E p \in 1..MaxPasses : SearchResolves(p, <<"">>)
    \/ \E p \in 1..MaxPasses, docs \in ExplorerDocumentLists : DocumentsResolve(p, docs)
    \/ \E p \in 1..MaxPasses, message \in ErrorMessages : RequestFails(p, message)
    \/ \E text \in {<<>>, <<"A">>} : SetCompanySearch(text)
    \/ \E p \in 1..MaxFilterPasses, i \in 1..2 : CompanySearchResolves(p, i, <<Apple>>)
    \/ \E p \in 1..MaxFilterPasses, i \in 1..2 : CompanySearchFails(p, i)

SpecChains == Init /\ [][NextChains]_vars

\* the filter text changes, or a company filter request resolves or fails
FilterChainStep ==
    \/ companySearch' # companySearch
    \/ filterPasses' # filterPasses

\* C32: a change of the company filter text and the resolution of a company
\* filter request neither start nor cancel an orchestration pass and leave
\* selection, query, mode, result state and Document Cache unchanged; a
\* change of query, tickers or mode leaves the company filter text, the
\* filter result and the filter requests unchanged.
RequestChainsAreIndependent ==
    /\ [][FilterChainStep => UNCHANGED orchVars]_vars
    /\ [][InputsChange => UNCHANGED <<companySearch, searchResults, filterPasses>>]_vars

\* a filter result arrived while a pass of the orchestrator was waiting for
\* its response, and the pass is still waiting
FilterResolvedDuringPassWitness ==
    /\ searchResults # Null
    /\ searchResults[1].companies # <<>>
    /\ resultsLoading
    /\ CurrentPass # 0
    /\ passes[CurrentPass].pc = "search"

-----------------------------------------------------------------------------
(* Requests of openDocumentDrawer *)

\* the call c of openDocumentDrawer is made in this step
DrawerCallStarts(c) ==
    /\ c = Len(drawerCalls) + 1
    /\ Len(drawerCalls') = c

\* the metadata request of the call c succeeds in this step
DrawerMetaArrives(c) ==
    /\ drawerCalls[c].pc = "meta"
    /\ drawerCalls'[c].meta = "ok"

\* C33: openDocumentDrawer issues a metadata request if and only if the
\* document is absent from the Document Cache and the card handed over no
\* fallback metadata; when the request succeeds the fetched metadata is in
\* the cache; every call with a non-empty doc id issues the sections request
\* (at once, or when the metadata request has settled either way); a card
\* with an empty doc id cannot start a call or change any state.
DrawerRequestsAsSpecified ==
    /\ [][\A c \in 1..MaxOpens : DrawerCallStarts(c) =>
              /\ drawerCalls'[c].docId # ""
              /\ drawerCalls'[c].pc \in {"meta", "sections"}
              /\ \A card \in OpenableCards :
                     card.docId = drawerCalls'[c].docId =>
                         (drawerCalls'[c].pc = "meta" <=>
                              /\ card.docId \notin DOMAIN documentCache
                              /\ card.meta = Null)]_vars
    /\ [][\A c \in 1..Len(drawerCalls) : DrawerMetaArrives(c) =>
              /\ drawerCalls[c].docId \in DOMAIN documentCache'
              /\ documentCache'[drawerCalls[c].docId]
                     = GatewayDocById(drawerCalls[c].docId)]_vars
    /\ [][\A c \in 1..Len(drawerCalls) :
              /\ (drawerCalls[c].pc = "meta" /\ drawerCalls'[c] # drawerCalls[c]) =>
                     drawerCalls'[c].pc = "sections"
              /\ (drawerCalls'[c] = Returned /\ drawerCalls[c] # Returned) =>
                     drawerCalls[c].pc = "sections"]_vars
    /\ [](\A card \in OpenableCards :
              card.docId = "" => ~ENABLED OpenDocumentDrawer(card))

\* a chunk card of an uncached document was opened while a card without doc id
\* is on the pane, its metadata arrived and is cached, and the sections
\* request is out
MetaFetchedOnOpenWitness ==
    /\ \E card \in OpenableCards : card.docId = ""
    /\ \E c \in 1..Len(drawerCalls) :
           /\ drawerCalls[c].meta = "ok"
           /\ drawerCalls[c].pc = "sections"
           /\ drawerCalls[c].docId \in DOMAIN documentCache

-----------------------------------------------------------------------------
(* Result state of the Search Orchestrator *)

\* C34: the chunk response and the document list are never both on hand:
\* searchResponse is null whenever documentResults is non-empty.
ResultKindsAreExclusive ==
    ~(searchResponse # Null /\ documentResults # <<>>)

\* a chunk response is on hand after a document pass had cached its
\* documents: the response replaced the document list
ChunksReplacedDocumentsWitness ==
    /\ searchResponse # Null
    /\ Len(passes) = 2
    /\ passes[1].pc = "superseded"
    /\ passes[2].pc = "done"
    /\ passes[2].missing = <<>>
    /\ "tickers" \in DOMAIN passes[2].request
    /\ DOMAIN documentCache = {"d1", "d2"}

-----------------------------------------------------------------------------
(* Enrichment requests of one pass *)

\* C35: within one pass no doc_id is requested more than once during
\* enrichment, also when several chunks reference the same uncached document.
EnrichmentRequestsEachDocOnce ==
    \A p \in 1..Len(passes) :
        \A i, j \in 1..Len(passes[p].missing) :
            passes[p].missing[i] = passes[p].missing[j] => i = j

-----------------------------------------------------------------------------
(* Termination of the results effect *)

\* a request of the pass p resolves or fails
PassRequestSettles(p) ==
    \/ \E ids \in ExplorerChunkLists : SearchResolves(p, ids)
    \/ \E docs \in ExplorerDocumentLists : DocumentsResolve(p, docs)
    \/ \E message \in ErrorMessages : RequestFails(p, message)
    \/ \E i \in 1..MaxEnrich, outcome \in {"ok", "fail"} :
           EnrichmentFetchResolves(p, i, outcome)

NextSettling ==
    \/ \E q \in ExplorerQueries : SetQuery(q)
    \/ HandleCompanyToggle(Apple)
    \/ \E p \in 1..MaxPasses : PassRequestSettles(p)

\* every outstanding request eventually resolves or fails
SpecSettling ==
    Init /\ [][NextSettling]_vars /\ \A p \in 1..MaxPasses : WF_vars(PassRequestSettles(p))

\* the result state is the outcome of the latest effect run
LastPassReflected ==
    IF CurrentPass = 0
    THEN resultsError = NoError /\ searchResponse = Null /\ documentResults = <<>>
    ELSE LET pass == passes[CurrentPass]
         IN  \/ /\ pass.pc = "failed"
                /\ resultsError # NoError
                /\ searchResponse = Null
                /\ documentResults = <<>>
             \/ /\ pass.pc = "done"
                /\ resultsError = NoError
                /\ IF pass.endpoint \in ChunkEndpoints
                   THEN /\ searchResponse # Null
                        /\ searchResponse[1].pass = CurrentPass
                        /\ documentResults = <<>>
                   ELSE searchResponse = Null

\* resultsLoading is true only while the pass of the latest effect run waits
\* for a request
LoadingIsOwnedByCurrentPass ==
    resultsLoading =>
        /\ CurrentPass # 0
        /\ passes[CurrentPass].pc \in {"search", "enrich"}

\* C36: if the inputs stop changing and every outstanding request eventually
\* resolves or fails, then eventually resultsLoading is false for good and
\* the result state reflects the last pass (its results or its error, or the
\* idle reset); resultsLoading is true only while the current, uncancelled
\* pass waits for a request, so a cancelled pass never leaves it stuck.
LoadingEventuallySettles ==
    /\ ([]<><<InputsChange>>_vars) \/ <>[](~resultsLoading /\ LastPassReflected)
    /\ [](LoadingIsOwnedByCurrentPass)

\* a pass was cancelled while it waited and its late response was discarded;
\* the pass that replaced it is done and the loading flag is down
SettledAfterCancelWitness ==
    /\ Len(passes) = 2
    /\ passes[1].pc = "discarded"
    /\ passes[2].pc = "done"
    /\ ~resultsLoading
    /\ LastPassReflected

-----------------------------------------------------------------------------
(* Keys of the selection *)

\* isSelected of a roster row: Boolean(selectedCompanies[company.cik])
IsSelected(company) == company.cik \in DOMAIN selectedCompanies

\* C37: each selected entry is stored under the key equal to its company's
\* cik, so the selection list holds at most one company per cik; toggling a
\* roster row whose cik is already selected under a different ticker removes
\* the existing entry instead of adding a second one.
SelectionIsKeyedByCik ==
    /\ \A k \in DOMAIN selectedCompanies : selectedCompanies[k].cik = k
    /\ LET list == SelectedCompaniesList(selectedCompanies)
       IN  \A i, j \in 1..Len(list) : list[i].cik = list[j].cik => i = j
    /\ \A company \in SelectionRows :
           (IsSelected(company)
               /\ selectedCompanies[company.cik].ticker # company.ticker) =>
                   LET next == Toggled(selectedCompanies, company)
                   IN  /\ DOMAIN next = DOMAIN selectedCompanies \ {company.cik}
                       /\ \A k \in DOMAIN next : next[k] = selectedCompanies[k]

\* the row of cik 1 with ticker AAPL is selected beside a row of another cik,
\* and the roster holds a second row of cik 1 with another ticker
SharedCikRowWitness ==
    /\ DOMAIN selectedCompanies = {1, 4}
    /\ selectedCompanies[1] = Apple
    /\ \E company \in SelectionRows :
           IsSelected(company) /\ company.ticker # selectedCompanies[company.cik].ticker

-----------------------------------------------------------------------------
(* The name request and the ticker request of one filter pass *)

\* the pass p sent a name request and a ticker request
IsPair(p) == Len(filterPasses[p].requests) = 2

\* a request of the pass p settles in this step
FilterRequestSettles(p) == filterPasses'[p] # filterPasses[p]

\* C38: the name and ticker requests of a pass succeed or fail as a whole:
\* when either request fails the filter result is the empty set, also when
\* the other request had returned companies; no result is written while a
\* request of the pair is outstanding; a result written on success merges
\* the responses of both; after a failure the pass writes nothing more.
PairSucceedsOrFailsAsWhole ==
    [][\A p \in 1..Len(filterPasses) : (IsPair(p) /\ FilterRequestSettles(p)) =>
          /\ filterPasses[p].pc = "requests"
          /\ filterPasses'[p].pc = "failed" =>
                 searchResults' = FilterResult(filterPasses[p].term, <<>>)
          /\ filterPasses'[p].pc = "requests" =>
                 /\ \E j \in 1..2 : filterPasses'[p].responses[j] = Null
                 /\ UNCHANGED searchResults
          /\ filterPasses'[p].pc = "done" =>
                 /\ \A j \in 1..2 : filterPasses'[p].responses[j] # Null
                 /\ searchResults' =
                        FilterResult(filterPasses[p].term,
                                     MergedResults(filterPasses'[p].responses))]_vars

\* one request of a pair returned companies, the other failed, and the filter
\* result is the empty set
HalfFailedPairWitness ==
    \E p \in 1..Len(filterPasses) :
        /\ IsPair(p)
        /\ filterPasses[p].pc = "failed"
        /\ \E j \in 1..2 :
               /\ filterPasses[p].responses[j] # Null
               /\ filterPasses[p].responses[j][1] # <<>>
        /\ searchResults = FilterResult(filterPasses[p].term, <<>>)

-----------------------------------------------------------------------------
(* The query the orchestrator decides on *)

\* the query holds white space only
IsBlankQuery == query # <<>> /\ \A i \in 1..Len(query) : IsSpace(query[i])

\* a text without white space at either end
IsTrimmed(text) ==
    text # <<>> => ~IsSpace(text[1]) /\ ~IsSpace(text[Len(text)])

\* C39: the orchestrator decides on the trimmed query: with a query of white
\* space only it is idle when no ticker is selected and runs a document
\* search when tickers are selected, and the results pane takes the query as
\* absent; every chunk-search request carries a non-empty text without
\* white space at either end, and the request of the current pass carries
\* the query without its surrounding white space.
OrchestratorUsesTrimmedQuery ==
    /\ (IsBlankQuery /\ SelectedTickerSet = {}) =>
           /\ CurrentPass = 0
           /\ ~resultsLoading
           /\ searchResponse = Null
    /\ (IsBlankQuery /\ SelectedTickerSet # {}) =>
           /\ CurrentPass # 0
           /\ passes[CurrentPass].endpoint = "searchDocuments"
    /\ IsBlankQuery => renderResultsPane \notin {"chunks", "no matches"}
    /\ (IsBlankQuery /\ DOMAIN selectedCompanies = {}) => renderResultsPane = "start"
    /\ \A p \in 1..Len(passes) :
           passes[p].endpoint \in ChunkEndpoints =>
               /\ passes[p].request.query # <<>>
               /\ IsTrimmed(passes[p].request.query)
    /\ (CurrentPass # 0 /\ passes[CurrentPass].endpoint \in ChunkEndpoints) =>
           \E i, j \in 1..Len(query) :
               /\ passes[CurrentPass].request.query = SubSeq(query, i, j)
               /\ \A k \in 1..Len(query) : (k < i \/ k > j) => IsSpace(query[k])

\* with a query of one blank and a ticker selected the documents of a
\* document search are shown
BlankQueryDocumentsWitness ==
    /\ IsBlankQuery
    /\ SelectedTickerSet # {}
    /\ documentResults # <<>>
    /\ renderResultsPane = "documents"

====
